---- MODULE Spec2Model ----
(***************************************************************************)
(* SpreadUP: price cache, spread calculator, alert cooldown tables and the *)
(* engine's scan loop, as a state machine.                                 *)
(*                                                                         *)
(* The program runs on one asyncio event loop.  A coroutine runs           *)
(* atomically between two real suspension points; acquiring an asyncio     *)
(* lock that is free does not suspend, and no lock of the program is held  *)
(* across a suspension point, so each handler below is one atomic action.  *)
(* Time is in seconds.  Prices are integers; a spread is a fixed-point     *)
(* number in units of 10^-5 percent.                                       *)
(***************************************************************************)
EXTENDS Integers, Sequences, FiniteSets, TLC

(* ------------------------------ bounds -------------------------------- *)

\* The clock advances at most MaxTicks times in a behaviour.
MaxTicks == 2

\* The errors counter of the engine stops counting at MaxErrors.
MaxErrors == 2

\* The feed connections of one connector that may end.
MaxDrops == 3

\* The REST requests one connector may make.
MaxRestRequests == 6

\* The calls made through one circuit breaker.
MaxBreakerCalls == 7

\* The acquire() calls made on one rate limiter, and the tenths of a second
\* over which they are made.
MaxAcquires == 24

MaxTenths == 2

\* The amounts by which the clock advances in one step: around the TTL of
\* the cache, and around the windows of the two cooldown gates.
CacheTicks == {1, 299, 300}

GateTicks == {1, 59, 600, 1200, 1201}

EngineTicks == {1, 59}

\* Around the recovery timeout of the circuit breaker.
RestTicks == {1, 29, 30}

(* ------------------------- program constants -------------------------- *)

\* ExchangeType (HTX is referenced by the program but is not a member).
ExchangeType == {"mexc", "gateio", "bingx"}

\* MarketType
MarketType == {"spot", "futures"}

\* InMemoryCache(default_ttl=300)
DefaultTtl == 300

\* SpreadCalculator._alert_cooldown_seconds
AlertCooldownSeconds == 60

\* NotificationService._notification_cooldown
NotificationCooldown == 1800

\* Settings.SPREAD_THRESHOLD, in percent
DefaultSpreadThreshold == 3

\* RateLimiter(rate=10.0, capacity=20) of a connector
LimiterRate == 10

LimiterCapacity == 20

\* CircuitBreaker(failure_threshold=5, recovery_timeout=30) of a connector
FailureThreshold == 5

RecoveryTimeout == 30

(* ------------------------------ state --------------------------------- *)

VARIABLES
    now,                    \* time.time() / datetime.utcnow(), in seconds
    ticks,                  \* number of clock advances so far
    cache,                  \* InMemoryCache._cache: key -> [value, expires_at]
    latest_prices,          \* PriceCache._latest_prices: key -> PriceUpdate
    written,                \* history: key -> the last update_price applied and when
    spread_threshold,       \* SpreadCalculator.spread_threshold
    last_alert_times,       \* SpreadCalculator._last_alert_times
    last_notification_time, \* NotificationService._last_notification_time
    subscribers,            \* NotificationService._subscribers
    granted,                \* history: gate -> key -> the times the gate let the key pass
    running,                \* MonitoringEngine._running
    monitor,                \* where the task of _monitor_loop stands
    errors,                 \* MonitoringEngine._stats["errors"]
    last_opportunities,     \* MonitoringEngine._last_opportunities
    dispatched,             \* history: the opportunities handed to _send_alert
    user_filters,           \* FilterService._user_filters: user id -> UserFilters
    connectors,             \* MonitoringEngine.connectors: exchange -> connector
    cache_closed,           \* PriceCache.close() has been called
    drops,                  \* history: exchange -> the feed connections that ended
    rest,                   \* exchange -> the REST side of its connector
    breaker,                \* a CircuitBreaker that call() is invoked on
    callers,                \* caller -> where its call() stands
    calls,                  \* history: the call() invocations so far
    bucket,                 \* a RateLimiter that acquire() is awaited on
    sleeper,                \* when the acquire() that waits in the lock ends its wait
    loop_time,              \* the clock of the event loop, in tenths of a second
    acquired,               \* history: the times at which acquire() calls completed
    stopping,               \* a stop() call waits for the scan task it cancelled
    orphans,                \* unfinished scan tasks _monitor_task no longer refers to
    ret                     \* the value returned by the operation just performed

clockVars == <<now, ticks>>
cacheVars == <<cache, latest_prices, written>>
gateVars == <<last_alert_times, last_notification_time, granted>>
engineVars == <<running, monitor, errors, last_opportunities, dispatched>>
configVars == <<spread_threshold, subscribers>>
filterVars == <<user_filters>>
connVars == <<connectors, cache_closed, drops, rest>>
breakerVars == <<breaker, callers, calls>>
limiterVars == <<bucket, sleeper, loop_time, acquired>>
stopVars == <<stopping, orphans>>

vars == <<clockVars, cacheVars, gateVars, engineVars, configVars, filterVars,
          connVars, breakerVars, limiterVars, stopVars, ret>>

\* What ret holds after an operation that returns nothing.
NoRet == [op |-> "none"]

\* Python's None.
None == [none |-> TRUE]

\* An Optional[float] that holds a value.
Some(x) == [value |-> x]

(* ------------------------------ models -------------------------------- *)

\* PriceUpdate.key: "exchange:market_type:symbol"
KeyOf(exchange, market_type, symbol) == <<exchange, market_type, symbol>>

\* PriceUpdate (timestamp and latency_ms play no part here and are left out)
PriceUpdate(exchange, market_type, symbol, price) ==
    [exchange |-> exchange, market_type |-> market_type,
     symbol |-> symbol, price |-> price]

\* d[key] = value on a dict
DictSet(d, key, value) ==
    [k \in DOMAIN d \cup {key} |-> IF k = key THEN value ELSE d[k]]

\* del d[key] / d.pop(key, None)
DictDel(d, keys) == [k \in DOMAIN d \ keys |-> d[k]]

EmptyDict == [k \in {} |-> None]

(* --------------------------- InMemoryCache ---------------------------- *)

\* InMemoryCache.set leaving an entry that exists as it is.
CacheSetIfAbsent(c, key, value, t) ==
    IF key \in DOMAIN c THEN c
    ELSE DictSet(c, key, [value |-> value, expires_at |-> t + DefaultTtl])

\* InMemoryCache.set: the entry stored under key at time t
CacheSet(c, key, value, t) ==
    DictSet(c, key, [value |-> value, expires_at |-> t + DefaultTtl])

\* InMemoryCache.get: the value returned
CacheGetValue(c, key, t) ==
    IF key \notin DOMAIN c THEN None
    ELSE IF t > c[key].expires_at THEN None
    ELSE c[key].value

\* InMemoryCache.get: the cache it leaves (an expired entry is deleted)
CacheGetEvict(c, key, t) ==
    IF key \in DOMAIN c /\ t > c[key].expires_at THEN DictDel(c, {key}) ELSE c

\* cleanup_expired sparing the entries that expire at this very instant.
CleanupExpiredStrictlyBefore(c, t) ==
    DictDel(c, {k \in DOMAIN c : c[k].expires_at < t})

\* InMemoryCache.cleanup_expired
CleanupExpired(c, t) ==
    DictDel(c, {k \in DOMAIN c : c[k].expires_at <= t})

(* ----------------------------- PriceCache ----------------------------- *)

\* update_price with setdefault in place of the assignment: the first price
\* of a key is kept.
SetLatestKeepsFirst(lp, u) ==
    IF KeyOf(u.exchange, u.market_type, u.symbol) \in DOMAIN lp THEN lp
    ELSE DictSet(lp, KeyOf(u.exchange, u.market_type, u.symbol), u)

\* PriceCache.update_price: the quick-lookup table it leaves
SetLatest(lp, u) == DictSet(lp, KeyOf(u.exchange, u.market_type, u.symbol), u)

\* PriceCache.get_price: the value returned
GetPriceValue(lp, c, key, t) ==
    IF key \in DOMAIN lp THEN lp[key] ELSE CacheGetValue(c, key, t)

\* PriceCache.get_all_spot_prices / get_all_futures_prices:
\* {symbol: {exchange: PriceUpdate}} for one market type
AllPrices(lp, market_type) ==
    LET ks == {k \in DOMAIN lp : lp[k].market_type = market_type}
        syms == {lp[k].symbol : k \in ks}
    IN [s \in syms |->
          [e \in {lp[k].exchange : k \in {j \in ks : lp[j].symbol = s}} |->
              lp[CHOOSE k \in ks : lp[k].symbol = s /\ lp[k].exchange = e]]]

GetAllSpotPrices(lp) == AllPrices(lp, "spot")

GetAllFuturesPrices(lp) == AllPrices(lp, "futures")

\* update_price(u) at time t on the three stores of the cache
ApplyUpdate(stores, u, t) ==
    LET key == KeyOf(u.exchange, u.market_type, u.symbol) IN
    [cache |-> CacheSet(stores.cache, key, u, t),
     latest_prices |-> SetLatest(stores.latest_prices, u),
     written |-> DictSet(stores.written, key, [price |-> u.price, at |-> t])]

\* The stores after a sequence of update_price calls
RECURSIVE AfterUpdates(_, _, _)
AfterUpdates(stores, updates, t) ==
    IF updates = <<>> THEN stores
    ELSE AfterUpdates(ApplyUpdate(stores, Head(updates), t), Tail(updates), t)

\* find_opportunities, lines 98-99: the prices the scan works on, its spot
\* prices read from the quick lookup as it stands at the first read and its
\* futures prices as it stands at the second
SnapshotView(at_spot_read, at_futures_read) ==
    LET spot_keys == {k \in DOMAIN at_spot_read :
                         at_spot_read[k].market_type = "spot"}
        futures_keys == {k \in DOMAIN at_futures_read :
                            at_futures_read[k].market_type = "futures"}
    IN [k \in spot_keys \cup futures_keys |->
           IF k \in spot_keys THEN at_spot_read[k] ELSE at_futures_read[k]]

\* The scan suspended between its two reads, letting up to two updates of
\* the feed in.
UpdatesBetweenSnapshotsAny(feed) ==
    {<<>>} \cup {<<u>> : u \in feed} \cup {<<u, v>> : u \in feed, v \in feed}

\* The update_price calls that run between the two reads of one scan: none,
\* as neither read suspends (the lock of the quick lookup is free whenever a
\* coroutine is resumed, no coroutine awaiting while it holds it)
UpdatesBetweenSnapshots(feed) == {<<>>}

(* -------------------------- SpreadCalculator -------------------------- *)

\* Units of a spread per percent: a spread is held to 5 decimals.
SpreadUnit == 10^5

\* SpreadCalculator.calculate_spread, in SpreadUnit-ths of a percent.  On the
\* prices of the model every comparison made on the result has the outcome
\* it has on the float.
CalculateSpread(spot_price, futures_price) ==
    IF spot_price <= 0 \/ futures_price <= 0 THEN 0
    ELSE ((futures_price - spot_price) * 100 * SpreadUnit) \div spot_price

\* SpreadCalculator.is_realistic_spread
IsRealisticSpread(spread_percent) ==
    0 < spread_percent /\ spread_percent < 50 * SpreadUnit

\* round(spread_percent, 4), in 10^-4 percent
Round4(spread_percent) == (spread_percent + 5) \div 10

\* symbol.replace("USDT", "").replace("_USDT", "") on the model's symbols
BaseAsset(symbol) ==
    CASE symbol = "BTCUSDT" -> "BTC"
      [] symbol = "ETHUSDT" -> "ETH"
      [] OTHER -> symbol

\* "if exchanges:" and the membership test of find_opportunities:
\* None and the empty list both switch the filter off
PassesExchangeFilter(exchanges, spot_exchange, futures_exchange) ==
    IF exchanges = None \/ exchanges.list = {} THEN TRUE
    ELSE spot_exchange \in exchanges.list /\ futures_exchange \in exchanges.list

\* find_opportunities pairing every spot entry with every futures entry,
\* without the intersection of the two sets of symbols.
AcceptedPairsAnySymbol(lp, threshold, exchanges) ==
    LET spot_keys == {k \in DOMAIN lp : k[2] = "spot"}
        futures_keys == {k \in DOMAIN lp : k[2] = "futures"}
    IN {<<p[1][3], p[1][1], p[2][1]>> :
          p \in {q \in spot_keys \X futures_keys :
                   LET spread_percent == CalculateSpread(lp[q[1]].price, lp[q[2]].price)
                   IN /\ PassesExchangeFilter(exchanges, q[1][1], q[2][1])
                      /\ spread_percent >= threshold
                      /\ IsRealisticSpread(spread_percent)}}

\* find_opportunities: the (symbol, spot exchange, futures exchange)
\* combinations that pass the filter and the test of lines 133-134
AcceptedPairs(lp, threshold, exchanges) ==
    LET spot_prices == GetAllSpotPrices(lp)
        futures_prices == GetAllFuturesPrices(lp)
        common_symbols == DOMAIN spot_prices \cap DOMAIN futures_prices
    IN {c \in UNION {{<<s, se, fe>> : se \in DOMAIN spot_prices[s],
                                      fe \in DOMAIN futures_prices[s]}
                     : s \in common_symbols} :
          LET spread_percent == CalculateSpread(spot_prices[c[1]][c[2]].price,
                                                futures_prices[c[1]][c[3]].price)
          IN /\ PassesExchangeFilter(exchanges, c[2], c[3])
             /\ spread_percent >= threshold
             /\ IsRealisticSpread(spread_percent)}

\* Reading attribute name of a pydantic model: AttributeError when the model
\* declares no such field
HasAttr(obj, name) == name \in DOMAIN obj

\* SpreadOpportunity(...) as find_opportunities builds it (lines 143-153);
\* volume_24h is read from the spot PriceUpdate
BuildOpportunity(symbol, spot_data, futures_data) ==
    [symbol |-> symbol,
     base_asset |-> BaseAsset(symbol),
     spot_exchange |-> spot_data.exchange,
     spot_price |-> spot_data.price,
     futures_exchange |-> futures_data.exchange,
     futures_price |-> futures_data.price,
     spread_percent |-> Round4(CalculateSpread(spot_data.price, futures_data.price)),
     volume_24h |-> spot_data.volume_24h]

\* opportunities.sort(key=spread_percent, reverse=True): the orders the sort
\* can leave a set of opportunities in.  The sort is stable and the order of
\* insertion follows the iteration order of a set of strings, so every order
\* of equal spreads is taken to be possible.
RECURSIVE SortedOrders(_)
SortedOrders(S) ==
    IF S = {} THEN {<<>>}
    ELSE LET top == {o \in S : \A x \in S : o.spread_percent >= x.spread_percent}
         IN UNION {{<<o>> \o t : t \in SortedOrders(S \ {o})} : o \in top}

\* SpreadCalculator.find_opportunities: the outcomes of one call.  Building
\* the first accepted opportunity reads spot_data.volume_24h.
FindOpportunities(lp, threshold, exchanges) ==
    LET acc == AcceptedPairs(lp, threshold, exchanges)
        spot(c) == lp[KeyOf(c[2], "spot", c[1])]
        futures(c) == lp[KeyOf(c[3], "futures", c[1])]
    IN IF \E c \in acc : ~HasAttr(spot(c), "volume_24h")
       THEN {[status |-> "raised", error |-> "AttributeError", opps |-> <<>>]}
       ELSE {[status |-> "returned", error |-> "", opps |-> seq] :
               seq \in SortedOrders({BuildOpportunity(c[1], spot(c), futures(c))
                                     : c \in acc})}

(* ------------------------- alert cooldown gates ----------------------- *)

\* The key of check_alert_cooldown taken to be the base asset.
AlertKeyByAsset(opp) == opp.base_asset

\* check_alert_cooldown: key = f"{symbol}:{spot_exchange}:{futures_exchange}"
AlertKey(opp) == <<opp.symbol, opp.spot_exchange, opp.futures_exchange>>

\* SpreadCalculator.check_alert_cooldown: the value returned at time t
CheckAlertCooldownResult(table, opp, t) ==
    IF AlertKey(opp) \in DOMAIN table
       /\ t - table[AlertKey(opp)] < AlertCooldownSeconds
    THEN FALSE
    ELSE TRUE

\* check_alert_cooldown writing the timestamp before it looks at the elapsed
\* time: a refused check restarts the window.
CheckAlertCooldownTableAlways(table, opp, t) == DictSet(table, AlertKey(opp), t)

\* check_alert_cooldown without its last assignment: no pass is recorded.
CheckAlertCooldownTableNever(table, opp, t) == table

\* SpreadCalculator.check_alert_cooldown: the table it leaves
CheckAlertCooldownTable(table, opp, t) ==
    IF CheckAlertCooldownResult(table, opp, t)
    THEN DictSet(table, AlertKey(opp), t)
    ELSE table

\* NotificationService.send_alert: key = opp.base_asset
NotificationKey(opp) == opp.base_asset

\* NotificationService.send_alert, lines 88-98: whether the alert passes the
\* rate limit at time t
RateLimitPasses(table, opp, t) ==
    ~(/\ NotificationKey(opp) \in DOMAIN table
      /\ t - table[NotificationKey(opp)] < NotificationCooldown)

\* NotificationService.send_alert, line 100: the table it leaves
RateLimitTable(table, opp, t) ==
    IF RateLimitPasses(table, opp, t)
    THEN DictSet(table, NotificationKey(opp), t)
    ELSE table

\* SpreadOpportunity.spot_url / futures_url build a dict keyed by
\* ExchangeType.HTX: reading either raises AttributeError unless the
\* enumeration has that member
UrlRaises == "htx" \notin ExchangeType

\* NotificationService.send_alert: how one call ends
SendAlertOutcome(subs, table, opp, t) ==
    IF subs = {} THEN "no_subscribers"
    ELSE IF ~RateLimitPasses(table, opp, t) THEN "rate_limited"
    ELSE IF UrlRaises THEN "raised"
    ELSE "sent"

\* NotificationService.send_alert: the table one call leaves
SendAlertTable(subs, table, opp, t) ==
    IF subs = {} THEN table ELSE RateLimitTable(table, opp, t)

\* What an opportunity is about: its symbol and its two exchanges.
OppId(opp) == <<opp.symbol, opp.spot_exchange, opp.futures_exchange>>

\* The history of a gate after it let key pass at time t: the times of the
\* last two passes of each key.
Grant(g, gate, key, t) ==
    [g EXCEPT ![gate] =
        DictSet(@, key, IF key \in DOMAIN @ THEN <<@[key][Len(@[key])], t>>
                        ELSE <<t>>)]

(* --------------------------- MonitoringEngine ------------------------- *)

\* _monitor_loop, lines 174-177, over the opportunities opps at time t:
\* each is offered to check_alert_cooldown and, when it passes, handed to
\* _send_alert, which calls the registered callback (main.py registers
\* NotificationService.send_alert).  st holds the tables and histories.
RECURSIVE SendAlerts(_, _, _, _)
SendAlerts(opps, st, subs, t) ==
    IF opps = <<>> THEN st
    ELSE LET opp == Head(opps)
             pass == CheckAlertCooldownResult(st.last_alert_times, opp, t)
             sink == SendAlertOutcome(subs, st.last_notification_time, opp, t)
             st1 == IF pass
                    THEN [last_alert_times |->
                              CheckAlertCooldownTable(st.last_alert_times, opp, t),
                          last_notification_time |->
                              SendAlertTable(subs, st.last_notification_time, opp, t),
                          granted |->
                              LET g1 == Grant(st.granted, "engine", OppId(opp), t)
                              IN IF sink \in {"raised", "sent"}
                                 THEN Grant(g1, "sink", opp.base_asset, t)
                                 ELSE g1,
                          dispatched |-> Append(st.dispatched, opp)]
                    ELSE st
         IN SendAlerts(Tail(opps), st1, subs, t)

\* opportunities[:5]
Top5(opps) == SubSeq(opps, 1, IF Len(opps) < 5 THEN Len(opps) ELSE 5)

(* ------------------------------ domains ------------------------------- *)

\* The canonical symbols of the model.
Symbols == {"BTCUSDT", "ETHUSDT"}

\* Prices held by the cache in the model: 100 -> 103 is a spread of 3 %,
\* 100 -> 104 of 4 %, 103 -> 104 of 0.97 %, 2 -> 3 of 50 %, 2 -> 100 of 4900 %.
Prices == {0, 2, 3, 100, 103, 104}

\* The thresholds the calculator is configured with in the model:
\* the default and 0.5 %.
Thresholds == {DefaultSpreadThreshold * SpreadUnit, SpreadUnit \div 2}

\* The updates fed to the cache while its timing is explored.
CacheFeed ==
    {PriceUpdate("mexc", "spot", "BTCUSDT", p) : p \in {100, 104}}
    \cup {PriceUpdate("gateio", "futures", "BTCUSDT", p) : p \in {100, 104}}

CacheFeedKeys == {KeyOf(u.exchange, u.market_type, u.symbol) : u \in CacheFeed}

\* The updates fed to the cache while the calculator is explored.
CalcFeed ==
    {PriceUpdate(e, "spot", "BTCUSDT", p) :
        e \in {"mexc", "gateio"}, p \in Prices \ {3, 104}}
    \cup {PriceUpdate(e, "futures", "BTCUSDT", p) :
        e \in {"mexc", "gateio"}, p \in Prices \ {2}}
    \cup {PriceUpdate("mexc", "spot", "ETHUSDT", 100),
          PriceUpdate("bingx", "futures", "ETHUSDT", 104)}

\* The exchange filters passed to find_opportunities in the model.
ExchangeFilters ==
    {None} \cup {[list |-> f] : f \in {{}, {"mexc"}, {"mexc", "gateio"}}}

\* An opportunity as a caller may hand it to the gates.
Opportunity(symbol, spot_exchange, futures_exchange, spot_price, futures_price) ==
    [symbol |-> symbol,
     base_asset |-> BaseAsset(symbol),
     spot_exchange |-> spot_exchange,
     spot_price |-> spot_price,
     futures_exchange |-> futures_exchange,
     futures_price |-> futures_price,
     spread_percent |-> Round4(CalculateSpread(spot_price, futures_price)),
     volume_24h |-> None]

\* The opportunities offered to the gates in the model.
OfferedOpps ==
    {Opportunity("BTCUSDT", "mexc", "gateio", 100, 104),
     Opportunity("BTCUSDT", "mexc", "bingx", 100, 104)}

\* The chat users of the model.
Users == {1, 2}

(* ----------------------- BaseExchangeConnector ----------------------- *)

\* BaseExchangeConnector.__init__ followed by initialize(): the HTTP session
\* is open, no feed task yet
NewConnector ==
    [running |-> FALSE,
     feeds |-> [m \in MarketType |-> "none"],
     session |-> "open",
     reconnects |-> 0,
     errors |-> 0,
     callbacks |-> {}]

\* BaseExchangeConnector.add_price_callback
AddPriceCallback(c, callback) == [c EXCEPT !.callbacks = @ \cup {callback}]

\* BaseExchangeConnector.start_websockets
StartWebsockets(c) ==
    [c EXCEPT !.running = TRUE, !.feeds = [m \in MarketType |-> "connecting"]]

\* close() leaving the feed tasks of the connector uncancelled.
CloseConnectorKeepsFeeds(c, raises) ==
    [c EXCEPT !.running = FALSE,
              !.session = IF raises THEN c.session ELSE "closed"]

\* BaseExchangeConnector.close: the connector stops, its feed tasks are
\* cancelled, and its sockets and session are closed unless a close raises
CloseConnector(c, raises) ==
    [c EXCEPT !.running = FALSE,
              !.feeds = [m \in MarketType |->
                            IF c.feeds[m] = "none" THEN "none" ELSE "done"],
              !.session = IF raises THEN c.session ELSE "closed"]

\* The place of a connector in MonitoringEngine.connectors, a dict iterated
\* in its order of insertion
ConnectorPosition(exchange) ==
    CASE exchange = "mexc" -> 1
      [] exchange = "gateio" -> 2
      [] exchange = "bingx" -> 3
      [] OTHER -> 4

\* stop(), lines 138-139: the connectors close() is called on, when the
\* close() of raiser raises: a raise leaves the loop
ClosedByStop(exchanges, raiser) ==
    {e \in exchanges : ConnectorPosition(e) <= ConnectorPosition(raiser)}

\* How a feed connection can end.
DropKinds == {"error", "timeout", "closed"}

\* Whether _connect_*_ws raises when its connection ends so: BingX catches
\* every exception itself, the other connectors let errors and timeouts out,
\* and a socket closed by the remote end makes every one of them return
ConnectRaises(exchange, kind) == exchange # "bingx" /\ kind \in {"error", "timeout"}

\* The reconnects counter counting only the connections that ended by an
\* exception.
ReconnectsAfterErrorsOnly(c, raised) ==
    IF raised THEN c.reconnects + 1 ELSE c.reconnects

\* _spot_ws_loop, lines 223-224: if self._running: reconnects += 1
ReconnectsAfter(c, raised) ==
    IF c.running THEN c.reconnects + 1 ELSE c.reconnects

\* The feed loop leaving its while loop when _connect_*_ws raises.
AfterConnectGivesUp(c, market_type, raised) ==
    [c EXCEPT !.errors = IF raised THEN @ + 1 ELSE @,
              !.reconnects = ReconnectsAfter(c, raised),
              !.feeds[market_type] =
                  IF c.running /\ ~raised THEN "sleep5" ELSE "done"]

\* _spot_ws_loop / _futures_ws_loop after _connect_*_ws has ended
AfterConnect(c, market_type, raised) ==
    [c EXCEPT !.errors = IF raised THEN @ + 1 ELSE @,
              !.reconnects = ReconnectsAfter(c, raised),
              !.feeds[market_type] = IF c.running THEN "sleep5" ELSE "done"]

\* The connectors whose feeds are exercised in the model.
FeedExchanges == {"mexc", "bingx"}

(* ------------------------------ REST ---------------------------------- *)

\* RateLimiter.__init__
NewRateLimiter == [tokens |-> LimiterCapacity, last_update |-> 0]

\* The clock of the limiter counts tenths of a second.
Tenths(seconds) == 10 * seconds

\* RateLimiter.acquire, lines 64-70, at time t: the bucket is refilled
Refill(limiter, t) ==
    LET refilled == limiter.tokens
                       + ((t - limiter.last_update) * LimiterRate) \div 10
    IN [limiter EXCEPT
           !.tokens = IF refilled > LimiterCapacity THEN LimiterCapacity
                      ELSE refilled,
           !.last_update = t]

\* RateLimiter.acquire, lines 73-75: the bucket when the wait of
\* (1 - tokens) / rate is over, at time t
AfterWait(limiter, t) == [limiter EXCEPT !.tokens = 0]

\* RateLimiter.acquire, line 73: the wait for a bucket without a token
WaitTime(limiter) == ((1 - limiter.tokens) * 10) \div LimiterRate

\* RateLimiter.acquire at time t: the bucket is refilled, then a token is
\* taken, after a wait when none is left
Acquire(limiter, t) ==
    LET refilled == Refill(limiter, t)
    IN IF refilled.tokens < 1 THEN AfterWait(refilled, t + WaitTime(refilled))
       ELSE [refilled EXCEPT !.tokens = @ - 1]

\* CircuitBreaker.__init__
NewCircuitBreaker ==
    [state |-> "closed", failure_count |-> 0, last_failure_time |-> None]

\* The REST side of a connector after __init__: its limiter, its breaker,
\* _stats["rest_requests"], and as history the requests handed to the
\* session, the failed ones in a row and the time of the last failure
NewRest ==
    [limiter |-> NewRateLimiter,
     breaker |-> NewCircuitBreaker,
     rest_requests |-> 0,
     attempts |-> 0,
     streak |-> 0,
     last_failure |-> None]

\* How session.get can end: a 200 response, another status, an exception.
RestOutcomes == {"ok", "http_error", "exception"}

\* _rest_request, lines 261-287: what the request leaves of the REST side
AfterRestRequest(r, outcome, t) ==
    [r EXCEPT !.limiter = Acquire(@, Tenths(t)),
              !.rest_requests = IF outcome = "exception" THEN @ ELSE @ + 1,
              !.attempts = @ + 1,
              !.streak = IF outcome = "ok" THEN 0 ELSE @ + 1,
              !.last_failure = IF outcome = "ok" THEN @ ELSE Some(t)]

\* asyncio.get_event_loop().time() when time.time() is t: a monotonic clock,
\* whose readings are positive
LoopTime(t) == t + 1

\* The truth value of an Optional[float]
Truthy(field) == field # None /\ field.value # 0

\* The tasks that call through the circuit breaker.
Callers == {1, 2}

\* CircuitBreaker.call, lines 116-123: the state the breaker is left in by
\* the test made before the guarded function is invoked
StateAtAdmission(b, t) ==
    IF /\ b.state = "open"
       /\ Truthy(b.last_failure_time)
       /\ t - b.last_failure_time.value >= RecoveryTimeout
    THEN "half-open"
    ELSE b.state

\* CircuitBreaker.call, lines 116-123: the call is rejected, "Circuit
\* breaker is open" being raised before the guarded function is invoked
Rejects(b, t) ==
    /\ b.state = "open"
    /\ Truthy(b.last_failure_time)
    /\ t - b.last_failure_time.value < RecoveryTimeout

\* CircuitBreaker.call, lines 127-130: the guarded function has returned
AfterSuccess(b) ==
    [b EXCEPT !.state = IF @ = "half-open" THEN "closed" ELSE @,
              !.failure_count = 0]

\* CircuitBreaker.call, lines 134-139: the guarded function has raised
AfterFailure(b, t) ==
    [b EXCEPT !.failure_count = @ + 1,
              !.last_failure_time = Some(t),
              !.state = IF b.failure_count + 1 >= FailureThreshold
                        THEN "open" ELSE @]

(* -------------------------- exchange clients -------------------------- *)

\* str.replace("_", "") on the symbols the feeds of the model carry:
\* "BTCUSDT", "BTC_USDT", "BTC-USDT", "XYZUSDT" and ""
ReplaceUnderscore(s) ==
    CASE s = "BTC_USDT" -> "BTCUSDT"
      [] OTHER -> s

\* str.replace("-", "") on the wire symbols
ReplaceDash(s) ==
    CASE s = "BTC-USDT" -> "BTCUSDT"
      [] OTHER -> s

\* str.replace("USDT_", "") on the wire symbols: none of them holds "USDT_"
ReplaceUsdtUnderscore(s) == s

\* dict.get(key, "") of the symbol of a ticker
GetOrEmpty(field) == IF field = None THEN "" ELSE field.value

\* float(dict.get(key, 0)) of a price of a ticker
FloatOrZero(field) == IF field = None THEN 0 ELSE field.value

\* A decoded message of a feed: kind is "ticker" for a message with the
\* layout of a ticker, "other" for any other JSON document, "malformed"
\* for a ticker whose fields make the parser raise inside its try block,
\* and "undecodable" for a text that orjson.loads rejects.  symbol, price
\* and ask are None when the field is missing.
WsMessage(kind, symbol, price, ask) ==
    [kind |-> kind, symbol |-> symbol, price |-> price, ask |-> ask]

\* MexcConnector._parse_spot_ws_message: "b" is held in price, "a" in ask
MexcParseSpotWsMessage(data) ==
    IF data.kind # "ticker" \/ data.symbol = None THEN None
    ELSE LET symbol == GetOrEmpty(data.symbol)
             bid == FloatOrZero(data.price)
             ask == FloatOrZero(data.ask)
         IN IF bid > 0 /\ ask > 0
            THEN PriceUpdate("mexc", "spot", symbol, (bid + ask) \div 2)
            ELSE None

\* MexcConnector._parse_futures_ws_message
MexcParseFuturesWsMessage(data) ==
    IF data.kind # "ticker" \/ data.symbol = None THEN None
    ELSE LET symbol == ReplaceUnderscore(GetOrEmpty(data.symbol))
             price == FloatOrZero(data.price)
         IN IF price > 0
            THEN PriceUpdate("mexc", "futures", symbol, price)
            ELSE None

\* The parser accepting a price of zero.
GateioParseSpotWsMessageZeroOk(data) ==
    IF data.kind # "ticker" THEN None
    ELSE LET symbol == GetOrEmpty(data.symbol)
             price == FloatOrZero(data.price)
         IN IF symbol # "" /\ price >= 0
            THEN PriceUpdate("gateio", "spot", symbol, price)
            ELSE None

\* GateioConnector._parse_spot_ws_message
GateioParseSpotWsMessage(data) ==
    IF data.kind # "ticker" THEN None
    ELSE LET symbol == GetOrEmpty(data.symbol)
             price == FloatOrZero(data.price)
         IN IF symbol # "" /\ price > 0
            THEN PriceUpdate("gateio", "spot", symbol, price)
            ELSE None

\* GateioConnector._parse_futures_ws_message
GateioParseFuturesWsMessage(data) ==
    IF data.kind # "ticker" THEN None
    ELSE LET contract == GetOrEmpty(data.symbol)
             normalized == ReplaceUnderscore(ReplaceUsdtUnderscore(contract))
             price == FloatOrZero(data.price)
         IN IF normalized # "" /\ price > 0
            THEN PriceUpdate("gateio", "futures", normalized, price)
            ELSE None

\* BingXConnector._parse_spot_ws_message
BingxParseSpotWsMessage(data) ==
    IF data.kind # "ticker" THEN None
    ELSE LET symbol == GetOrEmpty(data.symbol)
             price == FloatOrZero(data.price)
         IN IF symbol # "" /\ price > 0
            THEN PriceUpdate("bingx", "spot", symbol, price)
            ELSE None

\* BingXConnector._parse_futures_ws_message
BingxParseFuturesWsMessage(data) ==
    IF data.kind # "ticker" THEN None
    ELSE LET symbol == GetOrEmpty(data.symbol)
             normalized == ReplaceDash(symbol)
             price == FloatOrZero(data.price)
         IN IF normalized # "" /\ price > 0
            THEN PriceUpdate("bingx", "futures", normalized, price)
            ELSE None

\* self._parse_spot_ws_message / self._parse_futures_ws_message of the
\* connector of an exchange
ParseWsMessage(exchange, market_type, data) ==
    CASE exchange = "mexc" /\ market_type = "spot" -> MexcParseSpotWsMessage(data)
      [] exchange = "mexc" /\ market_type = "futures" -> MexcParseFuturesWsMessage(data)
      [] exchange = "gateio" /\ market_type = "spot" -> GateioParseSpotWsMessage(data)
      [] exchange = "gateio" /\ market_type = "futures" -> GateioParseFuturesWsMessage(data)
      [] exchange = "bingx" /\ market_type = "spot" -> BingxParseSpotWsMessage(data)
      [] OTHER -> BingxParseFuturesWsMessage(data)

\* _spot_symbols and _futures_symbols after _fetch_symbols, for venues that
\* list the pair BTC/USDT: spot ids are stored as the venue spells them,
\* futures ids with their separator removed
KnownSymbols(exchange, market_type) ==
    CASE market_type = "futures" -> {"BTCUSDT"}
      [] exchange = "mexc" -> {"BTCUSDT"}
      [] exchange = "gateio" -> {"BTC_USDT"}
      [] OTHER -> {"BTC-USDT"}

\* The body of the receive loop of _connect_*_ws for one text message: the
\* update the message yields, None when decoding or parsing fails
ReceivedUpdate(exchange, market_type, data) ==
    IF data.kind = "undecodable" THEN None
    ELSE ParseWsMessage(exchange, market_type, data)

\* The messages the feeds carry in the model.
FeedTraffic ==
    LET M(e, m, kind, symbol, price, ask) ==
            [exchange |-> e, market_type |-> m,
             data |-> WsMessage(kind, symbol, price, ask)]
    IN { M("mexc", "spot", "ticker", Some("BTCUSDT"), Some(100), Some(104)),
         M("mexc", "spot", "ticker", Some("BTCUSDT"), Some(100), Some(100)),
         M("mexc", "spot", "ticker", Some("BTCUSDT"), Some(0), Some(104)),
         M("mexc", "spot", "malformed", Some("BTCUSDT"), None, None),
         M("mexc", "futures", "ticker", Some("BTC_USDT"), Some(100), None),
         M("mexc", "futures", "ticker", Some("BTC_USDT"), None, None),
         M("gateio", "spot", "ticker", Some("BTC_USDT"), Some(100), None),
         M("gateio", "spot", "ticker", Some("BTC_USDT"), Some(0), None),
         M("gateio", "spot", "ticker", Some("BTC_USDT"), Some(-1), None),
         M("gateio", "spot", "undecodable", None, None, None),
         M("gateio", "futures", "ticker", Some(""), Some(100), None),
         M("gateio", "futures", "ticker", Some("BTC_USDT"), Some(0), None),
         M("bingx", "spot", "ticker", Some("XYZUSDT"), Some(100), None),
         M("bingx", "spot", "ticker", None, Some(100), None),
         M("bingx", "spot", "other", None, None, None),
         M("bingx", "futures", "ticker", Some("BTC-USDT"), Some(0), None),
         M("bingx", "futures", "malformed", Some("BTC-USDT"), None, None) }

\* The connectors whose initialize() raises in the model.
InitFailures == {{}, {"bingx"}}

(* ------------------------------ actions ------------------------------- *)

\* The clock advances.
Tick(d) ==
    /\ ticks < MaxTicks
    /\ now' = now + d
    /\ ticks' = ticks + 1
    /\ ret' = NoRet
    /\ UNCHANGED <<stopVars, limiterVars, breakerVars, connVars, filterVars, cacheVars, gateVars, engineVars, configVars>>

\* PriceCache.update_price (REDIS_URL is None by default: no Redis branch)
UpdatePrice(u) ==
    LET key == KeyOf(u.exchange, u.market_type, u.symbol) IN
    /\ cache' = CacheSet(cache, key, u, now)
    /\ latest_prices' = SetLatest(latest_prices, u)
    /\ written' = DictSet(written, key, [price |-> u.price, at |-> now])
    /\ ret' = NoRet
    /\ UNCHANGED <<stopVars, limiterVars, breakerVars, connVars, filterVars, clockVars, gateVars, engineVars, configVars>>

\* PriceCache.get_price
GetPrice(exchange, market_type, symbol) ==
    LET key == KeyOf(exchange, market_type, symbol) IN
    /\ ret' = [op |-> "get_price", key |-> key,
               value |-> GetPriceValue(latest_prices, cache, key, now)]
    /\ cache' = IF key \in DOMAIN latest_prices THEN cache
                ELSE CacheGetEvict(cache, key, now)
    /\ UNCHANGED <<stopVars, limiterVars, breakerVars, connVars, filterVars, clockVars, latest_prices, written, gateVars, engineVars,
                   configVars>>

\* PriceCache.cleanup
Cleanup ==
    /\ cache' = CleanupExpired(cache, now)
    /\ ret' = NoRet
    /\ UNCHANGED <<stopVars, limiterVars, breakerVars, connVars, filterVars, clockVars, latest_prices, written, gateVars, engineVars,
                   configVars>>

\* SpreadCalculator.find_opportunities(exchanges), as MonitoringEngine.force_scan
\* and any other caller run it
FindOpportunitiesCall(exchanges) ==
    /\ \E between \in UpdatesBetweenSnapshots(CalcFeed) :
          LET stores == [cache |-> cache, latest_prices |-> latest_prices,
                         written |-> written]
              after == AfterUpdates(stores, between, now)
              view == SnapshotView(latest_prices, after.latest_prices)
          IN /\ \E r \in FindOpportunities(view, spread_threshold, exchanges) :
                   ret' = [op |-> "find_opportunities", exchanges |-> exchanges,
                           status |-> r.status, opps |-> r.opps,
                           view |-> view,
                           instants |-> {AfterUpdates(stores, SubSeq(between, 1, n),
                                                      now).latest_prices :
                                            n \in 0..Len(between)}]
             /\ cache' = after.cache
             /\ latest_prices' = after.latest_prices
             /\ written' = after.written
    /\ UNCHANGED <<stopVars, limiterVars, breakerVars, connVars, filterVars, clockVars, gateVars, engineVars, configVars>>

\* SpreadCalculator.check_alert_cooldown(opp)
CheckAlertCooldown(opp) ==
    LET result == CheckAlertCooldownResult(last_alert_times, opp, now) IN
    /\ last_alert_times' = CheckAlertCooldownTable(last_alert_times, opp, now)
    /\ granted' = IF result THEN Grant(granted, "engine", OppId(opp), now)
                  ELSE granted
    /\ ret' = [op |-> "check_alert_cooldown", opp |-> opp,
               result |-> result, before |-> last_alert_times]
    /\ UNCHANGED <<stopVars, limiterVars, breakerVars, connVars, filterVars, clockVars, cacheVars, last_notification_time, engineVars,
                   configVars>>

\* NotificationService.send_alert(alert)
SendAlert(opp) ==
    LET outcome == SendAlertOutcome(subscribers, last_notification_time, opp, now) IN
    /\ last_notification_time' =
          SendAlertTable(subscribers, last_notification_time, opp, now)
    /\ granted' = IF outcome \in {"raised", "sent"}
                  THEN Grant(granted, "sink", opp.base_asset, now)
                  ELSE granted
    /\ ret' = [op |-> "send_alert", opp |-> opp, outcome |-> outcome,
               result |-> (outcome \in {"raised", "sent"}),
               before |-> last_notification_time]
    /\ UNCHANGED <<stopVars, limiterVars, breakerVars, connVars, filterVars, clockVars, cacheVars, last_alert_times, engineVars,
                   spread_threshold, subscribers>>

\* NotificationService.subscribe(user_id)
Subscribe(user_id) ==
    /\ subscribers' = subscribers \cup {user_id}
    /\ ret' = NoRet
    /\ UNCHANGED <<stopVars, limiterVars, breakerVars, connVars, filterVars, clockVars, cacheVars, gateVars, engineVars, spread_threshold>>

\* NotificationService.unsubscribe(user_id)
Unsubscribe(user_id) ==
    /\ subscribers' = subscribers \ {user_id}
    /\ ret' = NoRet
    /\ UNCHANGED <<stopVars, limiterVars, breakerVars, connVars, filterVars, clockVars, cacheVars, gateVars, engineVars, spread_threshold>>

\* MonitoringEngine.initialize: the three connectors are created and
\* initialised, and the price callback is registered on each connector
\* whose initialize() returned; failed holds the connectors whose
\* initialize() raised
EngineInitialize(failed) ==
    /\ connectors = EmptyDict
    /\ connectors' = [e \in ExchangeType |->
                          IF e \in failed THEN NewConnector
                          ELSE AddPriceCallback(NewConnector, "_on_price_update")]
    /\ ret' = NoRet
    /\ UNCHANGED <<stopVars, limiterVars, breakerVars, filterVars, clockVars, cacheVars, gateVars, engineVars,
                   configVars, cache_closed, drops, rest>>

\* MonitoringEngine.initialize when no initialize() of a connector raises
Initialize == EngineInitialize({})

\* MonitoringEngine.start: every connector starts its feeds and the scan
\* task is created, unless the engine is already running
Start ==
    /\ ~running
    /\ running' = TRUE
    /\ connectors' = [e \in DOMAIN connectors |-> StartWebsockets(connectors[e])]
    /\ monitor' = "ready"
    /\ orphans' = IF monitor = "cancelling" THEN orphans + 1 ELSE orphans
    /\ ret' = NoRet
    /\ UNCHANGED <<stopping, limiterVars, breakerVars, filterVars, clockVars, cacheVars, gateVars, errors, last_opportunities,
                   dispatched, configVars, cache_closed, drops, rest>>

\* MonitoringEngine.stop: the scan task is cancelled, then the connectors
\* are closed one after the other and the cache is closed.  raiser is the
\* connector whose close() raises, "none" when no close() raises.
Stop ==
    \E raiser \in DOMAIN connectors \cup {"none"} :
        /\ running' = FALSE
        /\ monitor' = IF monitor = "none" THEN "none" ELSE "stopped"
        /\ connectors' =
              [e \in DOMAIN connectors |->
                  IF e \in ClosedByStop(DOMAIN connectors, raiser)
                  THEN CloseConnector(connectors[e], e = raiser)
                  ELSE connectors[e]]
        /\ cache_closed' = (cache_closed \/ raiser = "none")
        /\ ret' = [op |-> "stop",
                   status |-> IF raiser = "none" THEN "returned" ELSE "raised",
                   closed |-> ClosedByStop(DOMAIN connectors, raiser),
                   cache_closed |-> (raiser = "none")]
        /\ UNCHANGED <<stopVars, limiterVars, breakerVars, filterVars, clockVars, cacheVars, gateVars, errors,
                       last_opportunities, dispatched, configVars, drops, rest>>

\* MonitoringEngine.stop, lines 128-133, when the scan task has not
\* finished: the engine is marked stopped, the task is asked to cancel and
\* the call waits for it to finish
StopCancel ==
    /\ ~stopping
    /\ monitor \in {"ready", "sleep1", "sleep5"}
    /\ running' = FALSE
    /\ monitor' = "cancelling"
    /\ stopping' = TRUE
    /\ ret' = NoRet
    /\ UNCHANGED <<orphans, limiterVars, breakerVars, connVars, filterVars,
                   clockVars, cacheVars, gateVars, errors, last_opportunities,
                   dispatched, configVars>>

\* A scan task that was asked to cancel takes its last step: CancelledError
\* is raised at its await and the task finishes (_monitor_loop, lines
\* 185-186).  The task is the one _monitor_task refers to, or one that a
\* later start() replaced there.
ScanTaskEnds ==
    /\ \/ /\ monitor = "cancelling"
          /\ monitor' = "stopped"
          /\ UNCHANGED orphans
       \/ /\ orphans > 0
          /\ orphans' = orphans - 1
          /\ UNCHANGED monitor
    /\ ret' = NoRet
    /\ UNCHANGED <<stopping, limiterVars, breakerVars, connVars, filterVars,
                   clockVars, cacheVars, gateVars, running, errors,
                   last_opportunities, dispatched, configVars>>

\* MonitoringEngine.stop, lines 134-143, once the task it waited for has
\* finished: the connectors are closed one after the other and the cache is
\* closed.  raiser is the connector whose close() raises, "none" when no
\* close() raises.
StopResume ==
    \E raiser \in DOMAIN connectors \cup {"none"} :
        /\ stopping
        /\ orphans = 0
        /\ monitor # "cancelling"
        /\ stopping' = FALSE
        /\ connectors' =
              [e \in DOMAIN connectors |->
                  IF e \in ClosedByStop(DOMAIN connectors, raiser)
                  THEN CloseConnector(connectors[e], e = raiser)
                  ELSE connectors[e]]
        /\ cache_closed' = (cache_closed \/ raiser = "none")
        /\ ret' = [op |-> "stop",
                   status |-> IF raiser = "none" THEN "returned" ELSE "raised",
                   closed |-> ClosedByStop(DOMAIN connectors, raiser),
                   cache_closed |-> (raiser = "none")]
        /\ UNCHANGED <<orphans, limiterVars, breakerVars, filterVars, clockVars,
                       cacheVars, gateVars, engineVars, configVars, drops, rest>>

\* The scan tasks that have not finished and were not asked to cancel.
ActiveScanLoops == IF monitor \in {"ready", "sleep1", "sleep5"} THEN 1 ELSE 0

\* A feed connection of a running connector is established.
FeedConnected(exchange, market_type) ==
    /\ exchange \in DOMAIN connectors
    /\ connectors[exchange].running
    /\ connectors[exchange].feeds[market_type] = "connecting"
    /\ connectors' = [connectors EXCEPT ![exchange].feeds[market_type] = "streaming"]
    /\ ret' = NoRet
    /\ UNCHANGED <<stopVars, limiterVars, breakerVars, filterVars, clockVars, cacheVars, gateVars, engineVars,
                   configVars, cache_closed, drops, rest>>

\* _spot_ws_loop / _futures_ws_loop: the call of _connect_*_ws ends, by an
\* error, a timeout or the closure of the socket by the remote end; the loop
\* counts and sleeps 5 s
FeedEnds(exchange, market_type, kind) ==
    /\ exchange \in DOMAIN connectors
    /\ connectors[exchange].running
    /\ connectors[exchange].feeds[market_type] \in {"connecting", "streaming"}
    /\ drops[exchange] < MaxDrops
    /\ connectors' = [connectors EXCEPT ![exchange] =
                          AfterConnect(@, market_type, ConnectRaises(exchange, kind))]
    /\ drops' = [drops EXCEPT ![exchange] = @ + 1]
    /\ ret' = NoRet
    /\ UNCHANGED <<stopVars, limiterVars, breakerVars, filterVars, clockVars, cacheVars, gateVars, engineVars,
                   configVars, cache_closed, rest>>

\* asyncio.sleep(5) of a feed loop returns
FeedWake(exchange, market_type) ==
    /\ exchange \in DOMAIN connectors
    /\ connectors[exchange].feeds[market_type] = "sleep5"
    /\ connectors' = [connectors EXCEPT ![exchange].feeds[market_type] =
                          IF connectors[exchange].running THEN "connecting" ELSE "done"]
    /\ ret' = NoRet
    /\ UNCHANGED <<stopVars, limiterVars, breakerVars, filterVars, clockVars, cacheVars, gateVars, engineVars,
                   configVars, cache_closed, drops, rest>>

\* The receive loop of _connect_spot_ws / _connect_futures_ws takes one text
\* message: the message is decoded and parsed, and the update it yields is
\* handed by _notify_callbacks to the registered callbacks, of which
\* MonitoringEngine._on_price_update stores it with update_price
HandleMessage(exchange, market_type, data) ==
    /\ exchange \in DOMAIN connectors
    /\ connectors[exchange].running
    /\ connectors[exchange].feeds[market_type] = "streaming"
    /\ LET price_update == ReceivedUpdate(exchange, market_type, data)
           delivered == /\ price_update # None
                        /\ "_on_price_update" \in connectors[exchange].callbacks
           key == KeyOf(price_update.exchange, price_update.market_type,
                        price_update.symbol)
       IN /\ IF delivered
             THEN /\ cache' = CacheSet(cache, key, price_update, now)
                  /\ latest_prices' = SetLatest(latest_prices, price_update)
                  /\ written' = DictSet(written, key,
                                        [price |-> price_update.price, at |-> now])
             ELSE UNCHANGED cacheVars
          /\ ret' = [op |-> "handle_message",
                     exchange |-> exchange,
                     market_type |-> market_type,
                     data |-> data,
                     emitted |-> price_update,
                     delivered |-> delivered,
                     errors_before |-> connectors[exchange].errors,
                     previous |-> IF delivered /\ key \in DOMAIN latest_prices
                                  THEN latest_prices[key] ELSE None]
    /\ UNCHANGED <<stopVars, limiterVars, breakerVars, connVars, filterVars, clockVars, gateVars, engineVars, configVars>>

\* BaseExchangeConnector._rest_request: a token of the limiter is acquired,
\* the request is sent, and its outcome is returned or logged
RestRequest(exchange, outcome) ==
    /\ exchange \in DOMAIN connectors
    /\ rest[exchange].attempts < MaxRestRequests
    /\ rest' = [rest EXCEPT ![exchange] = AfterRestRequest(@, outcome, now)]
    /\ connectors' = [connectors EXCEPT ![exchange].errors =
                          IF outcome = "exception" THEN @ + 1 ELSE @]
    /\ ret' = [op |-> "rest_request",
               exchange |-> exchange,
               status |-> "returned",
               value |-> IF outcome = "ok" THEN Some("json") ELSE None,
               sent |-> TRUE,
               outcome |-> outcome,
               errors_before |-> connectors[exchange].errors,
               attempts_before |-> rest[exchange].attempts,
               streak_before |-> rest[exchange].streak,
               last_failure_before |-> rest[exchange].last_failure]
    /\ UNCHANGED <<stopVars, limiterVars, breakerVars, filterVars, clockVars, cacheVars, gateVars, engineVars,
                   configVars, cache_closed, drops>>

\* CircuitBreaker.call up to the invocation of the guarded function: the
\* call is rejected while the breaker is open, and otherwise the guarded
\* function is invoked, the lock of the breaker being released
BreakerEnter(caller) ==
    /\ callers[caller] = "idle"
    /\ calls < MaxBreakerCalls
    /\ calls' = calls + 1
    /\ LET t == LoopTime(now)
           admitted == StateAtAdmission(breaker, t)
       IN IF Rejects(breaker, t)
          THEN /\ UNCHANGED <<breaker, callers>>
               /\ ret' = [op |-> "breaker_enter", caller |-> caller,
                          status |-> "raised", invoked |-> FALSE,
                          before |-> breaker]
          ELSE /\ breaker' = [breaker EXCEPT !.state = admitted]
               /\ callers' = [callers EXCEPT ![caller] = admitted]
               /\ ret' = [op |-> "breaker_enter", caller |-> caller,
                          status |-> "invoked", invoked |-> TRUE,
                          before |-> breaker]
    /\ UNCHANGED <<stopVars, limiterVars, connVars, filterVars, clockVars, cacheVars,
                   gateVars, engineVars, configVars>>

\* CircuitBreaker.call from the return of the guarded function: a success
\* resets the count, a failure is counted and re-raised
BreakerExit(caller, succeeded) ==
    /\ callers[caller] # "idle"
    /\ breaker' = IF succeeded THEN AfterSuccess(breaker)
                  ELSE AfterFailure(breaker, LoopTime(now))
    /\ callers' = [callers EXCEPT ![caller] = "idle"]
    /\ ret' = [op |-> "breaker_exit", caller |-> caller,
               status |-> IF succeeded THEN "returned" ELSE "raised",
               admitted |-> callers[caller],
               before |-> breaker]
    /\ UNCHANGED <<stopVars, limiterVars, calls, connVars, filterVars, clockVars,
                   cacheVars, gateVars, engineVars, configVars>>

\* A tenth of a second passes on the clock of the event loop.
LoopTick ==
    /\ loop_time < MaxTenths
    /\ loop_time' = loop_time + 1
    /\ ret' = NoRet
    /\ UNCHANGED <<stopVars, bucket, sleeper, acquired, breakerVars, connVars, filterVars,
                   clockVars, cacheVars, gateVars, engineVars, configVars>>

\* RateLimiter.acquire, entered by the task that gets the lock: the bucket
\* is refilled and a token is taken, or the task starts its wait, the lock
\* held
AcquireEnter ==
    /\ sleeper = None
    /\ Len(acquired) < MaxAcquires
    /\ LET refilled == Refill(bucket, loop_time)
       IN IF refilled.tokens < 1
          THEN /\ bucket' = refilled
               /\ sleeper' = Some(loop_time + WaitTime(refilled))
               /\ UNCHANGED acquired
               /\ ret' = [op |-> "acquire", status |-> "waiting"]
          ELSE /\ bucket' = [refilled EXCEPT !.tokens = @ - 1]
               /\ acquired' = Append(acquired, loop_time)
               /\ UNCHANGED sleeper
               /\ ret' = [op |-> "acquire", status |-> "returned"]
    /\ UNCHANGED <<stopVars, loop_time, breakerVars, connVars, filterVars, clockVars,
                   cacheVars, gateVars, engineVars, configVars>>

\* RateLimiter.acquire, lines 74-75: the wait is over, the bucket is set to
\* 0 and the lock is released
AcquireWake ==
    /\ sleeper # None
    /\ loop_time >= sleeper.value
    /\ bucket' = AfterWait(bucket, loop_time)
    /\ sleeper' = None
    /\ acquired' = Append(acquired, loop_time)
    /\ ret' = [op |-> "acquire", status |-> "returned"]
    /\ UNCHANGED <<stopVars, loop_time, breakerVars, connVars, filterVars, clockVars,
                   cacheVars, gateVars, engineVars, configVars>>

\* The handler of _monitor_loop letting the exception end the task,
\* uncounted.
OnScanExceptionUncaught ==
    /\ errors' = errors
    /\ monitor' = "stopped"
    /\ UNCHANGED <<cacheVars, gateVars, last_opportunities, dispatched>>

\* _monitor_loop, lines 187-190: except Exception: errors += 1; sleep(5).
\* The counter of the model stops at MaxErrors.
OnScanException ==
    /\ errors' = IF errors < MaxErrors THEN errors + 1 ELSE errors
    /\ monitor' = "sleep5"
    /\ UNCHANGED <<cacheVars, gateVars, last_opportunities, dispatched>>

\* _monitor_loop, lines 169-184: the rest of an iteration whose scan returned
\* the list opportunities
AfterScan(opportunities) ==
    LET st == SendAlerts(Top5(opportunities),
                         [last_alert_times |-> last_alert_times,
                          last_notification_time |-> last_notification_time,
                          granted |-> granted,
                          dispatched |-> dispatched],
                         subscribers, now)
    IN /\ last_opportunities' =
             IF opportunities # <<>> THEN opportunities ELSE last_opportunities
       /\ last_alert_times' = st.last_alert_times
       /\ last_notification_time' = st.last_notification_time
       /\ granted' = st.granted
       /\ dispatched' = st.dispatched
       /\ cache' = CleanupExpired(cache, now)
       /\ monitor' = "sleep1"
       /\ UNCHANGED <<latest_prices, written, errors>>

\* One iteration of MonitoringEngine._monitor_loop, up to its sleep
MonitorIteration ==
    /\ running
    /\ monitor = "ready"
    /\ ret' = NoRet
    /\ \E r \in FindOpportunities(latest_prices, spread_threshold, None) :
          IF r.status = "raised"
          THEN OnScanException
          ELSE AfterScan(r.opps)
    /\ UNCHANGED <<stopVars, limiterVars, breakerVars, connVars, filterVars, clockVars, running, configVars>>

\* One iteration of _monitor_loop, lines 166-184, for a scan that returned
\* the list opportunities
ScanReturned(opportunities) ==
    /\ running
    /\ monitor = "ready"
    /\ ret' = [op |-> "scan", opportunities |-> opportunities]
    /\ AfterScan(opportunities)
    /\ UNCHANGED <<stopVars, limiterVars, breakerVars, connVars, filterVars, clockVars, running, configVars>>

\* MonitoringEngine.get_current_opportunities
GetCurrentOpportunities == last_opportunities

\* asyncio.sleep(1) or asyncio.sleep(5) of _monitor_loop returns
WakeUp ==
    /\ monitor \in {"sleep1", "sleep5"}
    /\ monitor' = IF running THEN "ready" ELSE "stopped"
    /\ ret' = NoRet
    /\ UNCHANGED <<stopVars, limiterVars, breakerVars, connVars, filterVars, clockVars, cacheVars, gateVars, running, errors,
                   last_opportunities, dispatched, configVars>>

(* ---------------------- UserFilters / FilterService ------------------- *)

\* Units of a filter's spread per percent: spread_percent as an opportunity
\* carries it, rounded to 4 decimals.
FilterUnit == SpreadUnit \div 10

\* UserFilters(): the defaults of the fields
DefaultFilters ==
    [min_spread |-> 3 * FilterUnit,
     max_spread |-> 50 * FilterUnit,
     min_volume |-> 0,
     enabled_exchanges |-> {"mexc", "gateio", "bingx", "htx"}]

\* UserFilters.is_exchange_enabled (the names reach it as the values of
\* ExchangeType, which lower() leaves as they are)
IsExchangeEnabled(filters, exchange) == exchange \in filters.enabled_exchanges

\* UserFilters.is_spread_valid
IsSpreadValid(filters, spread_percent) ==
    filters.min_spread <= spread_percent /\ spread_percent <= filters.max_spread

\* UserFilters.is_volume_valid
IsVolumeValid(filters, volume) ==
    IF volume = None THEN TRUE ELSE volume.value >= filters.min_volume

\* UserFilters.should_alert with the check of the futures exchange left out.
ShouldAlertSpotOnly(filters, spread_percent, volume, spot_exchange, futures_exchange) ==
    /\ IsSpreadValid(filters, spread_percent)
    /\ IsVolumeValid(filters, volume)
    /\ IsExchangeEnabled(filters, spot_exchange)

\* UserFilters.should_alert
ShouldAlert(filters, spread_percent, volume, spot_exchange, futures_exchange) ==
    /\ IsSpreadValid(filters, spread_percent)
    /\ IsVolumeValid(filters, volume)
    /\ IsExchangeEnabled(filters, spot_exchange)
    /\ IsExchangeEnabled(filters, futures_exchange)

\* FilterService.get_filters: the store it leaves; a user without filters
\* gets the defaults stored
GetFiltersStore(store, user_id) ==
    IF user_id \in DOMAIN store THEN store
    ELSE DictSet(store, user_id, DefaultFilters)

\* FilterService.get_filters: the filters it returns
GetFilters(store, user_id) == GetFiltersStore(store, user_id)[user_id]

\* FilterService.should_send_alert: the result
ShouldSendAlertResult(store, user_id, spread_percent, volume, spot_exchange, futures_exchange) ==
    ShouldAlert(GetFilters(store, user_id), spread_percent, volume,
                spot_exchange, futures_exchange)

\* The values the chat layer sets the filters to in the model.
MinSpreads == {5 * FilterUnit}
MaxSpreads == {4 * FilterUnit}
MinVolumes == {1000}
ToggledExchanges == {"mexc", "gateio"}

\* The users who set single filter values in the model; the others switch
\* all their exchanges on or off.
Tuners == {1}

\* The opportunities' values the filters are evaluated on in the model.
EvalSpreads == {4 * FilterUnit, 6 * FilterUnit}
EvalVolumes == {None, Some(500), Some(1000)}
EvalExchanges == {"mexc", "gateio"}

\* FilterService.set_min_spread(user_id, value)
SetMinSpread(user_id, value) ==
    /\ user_filters' = [GetFiltersStore(user_filters, user_id)
                           EXCEPT ![user_id].min_spread = value]
    /\ ret' = NoRet
    /\ UNCHANGED <<stopVars, limiterVars, breakerVars, connVars, clockVars, cacheVars, gateVars, engineVars, configVars>>

\* FilterService.set_max_spread(user_id, value)
SetMaxSpread(user_id, value) ==
    /\ user_filters' = [GetFiltersStore(user_filters, user_id)
                           EXCEPT ![user_id].max_spread = value]
    /\ ret' = NoRet
    /\ UNCHANGED <<stopVars, limiterVars, breakerVars, connVars, clockVars, cacheVars, gateVars, engineVars, configVars>>

\* FilterService.set_min_volume(user_id, value)
SetMinVolume(user_id, value) ==
    /\ user_filters' = [GetFiltersStore(user_filters, user_id)
                           EXCEPT ![user_id].min_volume = value]
    /\ ret' = NoRet
    /\ UNCHANGED <<stopVars, limiterVars, breakerVars, connVars, clockVars, cacheVars, gateVars, engineVars, configVars>>

\* FilterService.toggle_exchange(user_id, exchange)
ToggleExchange(user_id, exchange) ==
    /\ user_filters' = [GetFiltersStore(user_filters, user_id)
                           EXCEPT ![user_id].enabled_exchanges =
                               IF exchange \in @ THEN @ \ {exchange}
                               ELSE @ \cup {exchange}]
    /\ ret' = NoRet
    /\ UNCHANGED <<stopVars, limiterVars, breakerVars, connVars, clockVars, cacheVars, gateVars, engineVars, configVars>>

\* FilterService.enable_all_exchanges(user_id)
EnableAllExchanges(user_id) ==
    /\ user_filters' = [GetFiltersStore(user_filters, user_id)
                           EXCEPT ![user_id].enabled_exchanges =
                               {"mexc", "gateio", "bingx", "htx"}]
    /\ ret' = NoRet
    /\ UNCHANGED <<stopVars, limiterVars, breakerVars, connVars, clockVars, cacheVars, gateVars, engineVars, configVars>>

\* FilterService.disable_all_exchanges(user_id)
DisableAllExchanges(user_id) ==
    /\ user_filters' = [GetFiltersStore(user_filters, user_id)
                           EXCEPT ![user_id].enabled_exchanges = {}]
    /\ ret' = NoRet
    /\ UNCHANGED <<stopVars, limiterVars, breakerVars, connVars, clockVars, cacheVars, gateVars, engineVars, configVars>>

\* FilterService.should_send_alert(user_id, spread_percent, volume,
\* spot_exchange, futures_exchange)
ShouldSendAlert(user_id, spread_percent, volume, spot_exchange, futures_exchange) ==
    /\ user_filters' = GetFiltersStore(user_filters, user_id)
    /\ ret' = [op |-> "should_send_alert", user_id |-> user_id,
               spread_percent |-> spread_percent, volume |-> volume,
               spot_exchange |-> spot_exchange,
               futures_exchange |-> futures_exchange,
               result |-> ShouldSendAlertResult(user_filters, user_id,
                              spread_percent, volume, spot_exchange,
                              futures_exchange),
               before |-> user_filters]
    /\ UNCHANGED <<stopVars, limiterVars, breakerVars, connVars, clockVars, cacheVars, gateVars, engineVars, configVars>>

\* send_alert, line 118: opp.volume_24h or 0
VolumeOrZero(volume_24h) == IF volume_24h = None THEN Some(0) ELSE volume_24h

\* NotificationService.send_alert, lines 114-121: the filters of one
\* subscriber are evaluated for the opportunity of the alert
SinkEvaluate(user_id, spread_percent, volume_24h, spot_exchange, futures_exchange) ==
    /\ user_filters' = GetFiltersStore(user_filters, user_id)
    /\ ret' = [op |-> "sink_filter", user_id |-> user_id,
               spread_percent |-> spread_percent, volume_24h |-> volume_24h,
               spot_exchange |-> spot_exchange,
               futures_exchange |-> futures_exchange,
               result |-> ShouldSendAlertResult(user_filters, user_id,
                              spread_percent, VolumeOrZero(volume_24h),
                              spot_exchange, futures_exchange),
               before |-> user_filters]
    /\ UNCHANGED <<stopVars, limiterVars, breakerVars, connVars, clockVars, cacheVars,
                   gateVars, engineVars, configVars>>

\* What bot.send_message does for one subscriber: it returns ("ok"), raises
\* a TelegramAPIError saying that the bot was blocked or the user is
\* deactivated ("blocked"), raises another TelegramAPIError ("api_error"),
\* or raises any other exception ("error").
DeliveryOutcomes == {"ok", "blocked", "api_error", "error"}

\* NotificationService._send_to_user: what one delivery leaves.  A
\* TelegramAPIError is handled inside, any other exception leaves the
\* coroutine.
SendToUser(outcome) ==
    [raised |-> outcome = "error",
     failed |-> outcome \in {"blocked", "api_error"},
     removed |-> outcome = "blocked"]

\* The deliveries awaited one after the other, the first exception ending
\* the wait.
GatherUntilFirstError(tasks, delivery) ==
    LET raisers == {u \in tasks : SendToUser(delivery[u]).raised}
    IN [ran |-> {u \in tasks : \A r \in raisers : u <= r},
        raised |-> raisers # {}]

\* asyncio.gather(*tasks, return_exceptions=True), line 135: every delivery
\* runs to its end and an exception is handed back as a result
Gather(tasks, delivery) ==
    [ran |-> tasks, raised |-> FALSE]

\* FilterService.get_filters called for each of users: the store it leaves
RECURSIVE GetFiltersStoreAll(_, _)
GetFiltersStoreAll(store, users) ==
    IF users = {} THEN store
    ELSE LET u == CHOOSE x \in users : TRUE
         IN GetFiltersStoreAll(GetFiltersStore(store, u), users \ {u})

\* NotificationService.send_alert, lines 110-135: the fan-out of a formatted
\* alert to the subscribers whose filters accept it; delivery gives what
\* send_message does for each user
FanOut(opp, delivery) ==
    /\ subscribers # {}
    /\ LET accepted == {u \in subscribers :
                           ShouldSendAlertResult(user_filters, u,
                               opp.spread_percent, VolumeOrZero(opp.volume_24h),
                               opp.spot_exchange, opp.futures_exchange)}
           outcome == Gather(accepted, delivery)
       IN /\ subscribers' =
                subscribers \ {u \in outcome.ran : SendToUser(delivery[u]).removed}
          /\ user_filters' = GetFiltersStoreAll(user_filters, subscribers)
          /\ ret' = [op |-> "fan_out", opp |-> opp, delivery |-> delivery,
                     accepted |-> accepted, attempted |-> outcome.ran,
                     status |-> IF outcome.raised THEN "raised" ELSE "returned",
                     before |-> subscribers]
    /\ UNCHANGED <<stopVars, limiterVars, breakerVars, connVars, clockVars, cacheVars,
                   gateVars, engineVars, spread_threshold>>

(* --------------------------- specifications --------------------------- *)

\* The state after construction, for each configured threshold.
Init ==
    /\ now = 0
    /\ ticks = 0
    /\ cache = EmptyDict
    /\ latest_prices = EmptyDict
    /\ written = EmptyDict
    /\ spread_threshold \in Thresholds
    /\ last_alert_times = EmptyDict
    /\ last_notification_time = EmptyDict
    /\ subscribers = {}
    /\ granted = [gate \in {"engine", "sink"} |-> EmptyDict]
    /\ running = FALSE
    /\ monitor = "none"
    /\ errors = 0
    /\ last_opportunities = <<>>
    /\ dispatched = <<>>
    /\ user_filters = EmptyDict
    /\ connectors = EmptyDict
    /\ cache_closed = FALSE
    /\ drops = [e \in ExchangeType |-> 0]
    /\ rest = [e \in ExchangeType |-> NewRest]
    /\ breaker = NewCircuitBreaker
    /\ callers = [c \in Callers |-> "idle"]
    /\ calls = 0
    /\ bucket = NewRateLimiter
    /\ sleeper = None
    /\ loop_time = 0
    /\ acquired = <<>>
    /\ stopping = FALSE
    /\ orphans = 0
    /\ ret = NoRet

\* The price cache under updates, reads, sweeps and the passing of time.
CacheNext ==
    \/ \E d \in CacheTicks : Tick(d)
    \/ \E u \in CacheFeed : UpdatePrice(u)
    \/ \E k \in CacheFeedKeys : GetPrice(k[1], k[2], k[3])
    \/ Cleanup

SpecCache == Init /\ [][CacheNext]_vars

\* The calculator over the contents of the cache.
CalcNext ==
    \/ \E u \in CalcFeed : UpdatePrice(u)
    \/ \E f \in ExchangeFilters : FindOpportunitiesCall(f)

SpecCalc == Init /\ [][CalcNext]_vars

\* The two cooldown gates under offers from any caller.
CooldownNext ==
    \/ \E d \in GateTicks : Tick(d)
    \/ \E o \in OfferedOpps : CheckAlertCooldown(o)
    \/ \E o \in OfferedOpps : SendAlert(o)
    \/ Subscribe(1)
    \/ Unsubscribe(1)

SpecCooldown == Init /\ [][CooldownNext]_vars

\* The updates the connectors deliver while the engine is explored.
EngineFeed ==
    {PriceUpdate("mexc", "spot", "BTCUSDT", p) : p \in {100, 104}}
    \cup {PriceUpdate("gateio", "futures", "BTCUSDT", p) : p \in {100, 104}}

\* The engine with its scan loop.
EngineNext ==
    \/ \E d \in EngineTicks : Tick(d)
    \/ \E u \in EngineFeed : UpdatePrice(u)
    \/ \E u \in Users : Subscribe(u)
    \/ Start
    \/ Stop
    \/ MonitorIteration
    \/ WakeUp

Spec == Init /\ [][EngineNext]_vars

\* The filter store under the settings of the chat layer and the
\* evaluations of the sink.
FilterNext ==
    \/ \E u \in Tuners : \E v \in MinSpreads : SetMinSpread(u, v)
    \/ \E u \in Tuners : \E v \in MaxSpreads : SetMaxSpread(u, v)
    \/ \E u \in Tuners : \E v \in MinVolumes : SetMinVolume(u, v)
    \/ \E u \in Tuners : \E e \in ToggledExchanges : ToggleExchange(u, e)
    \/ \E u \in Users : EnableAllExchanges(u)
    \/ \E u \in Users : DisableAllExchanges(u)
    \/ \E u \in Users : \E sp \in EvalSpreads : \E v \in EvalVolumes :
          \E se \in EvalExchanges : \E fe \in EvalExchanges :
              ShouldSendAlert(u, sp, v, se, fe)

SpecFilter == Init /\ [][FilterNext]_vars

\* The feeds of the connectors between the start and the stop of the engine.
ConnectorNext ==
    \/ Initialize
    \/ Start
    \/ Stop
    \/ \E e \in FeedExchanges : \E m \in MarketType : FeedConnected(e, m)
    \/ \E e \in FeedExchanges : \E m \in MarketType : \E k \in DropKinds :
          FeedEnds(e, m, k)
    \/ \E e \in FeedExchanges : \E m \in MarketType : FeedWake(e, m)

SpecConnector == Init /\ [][ConnectorNext]_vars

\* The event loop lets the asyncio.sleep(5) of every feed loop return.
FairSpecConnector ==
    /\ SpecConnector
    /\ \A e \in FeedExchanges : \A m \in MarketType : WF_vars(FeedWake(e, m))

\* The feeds of the started connectors deliver their messages to the cache.
FeedNext ==
    \/ \E failed \in InitFailures : EngineInitialize(failed)
    \/ Start
    \/ \E e \in ExchangeType : \E m \in MarketType : FeedConnected(e, m)
    \/ \E t \in FeedTraffic : HandleMessage(t.exchange, t.market_type, t.data)

SpecFeed == Init /\ [][FeedNext]_vars

\* The REST requests of one connector as time passes.
RestNext ==
    \/ Initialize
    \/ \E d \in RestTicks : Tick(d)
    \/ \E o \in RestOutcomes : RestRequest("mexc", o)

SpecRest == Init /\ [][RestNext]_vars

\* The messages the MEXC spot feed carries while the engine is started and
\* stopped.
ShutdownTraffic == {t \in FeedTraffic : t.exchange = "mexc" /\ t.market_type = "spot"}

\* The engine is started and stopped while the feeds of the MEXC connector
\* connect, deliver, drop and reconnect.
ShutdownNext ==
    \/ Initialize
    \/ Start
    \/ Stop
    \/ \E m \in MarketType : FeedConnected("mexc", m)
    \/ \E m \in MarketType : \E k \in DropKinds : FeedEnds("mexc", m, k)
    \/ \E m \in MarketType : FeedWake("mexc", m)
    \/ \E t \in ShutdownTraffic : HandleMessage(t.exchange, t.market_type, t.data)

SpecShutdown == Init /\ [][ShutdownNext]_vars

\* Tasks call through one circuit breaker as time passes.
BreakerNext ==
    \/ \E d \in RestTicks : Tick(d)
    \/ \E c \in Callers : BreakerEnter(c)
    \/ \E c \in Callers : \E succeeded \in BOOLEAN : BreakerExit(c, succeeded)

SpecBreaker == Init /\ [][BreakerNext]_vars

\* Tasks acquire tokens of one rate limiter as time passes.
LimiterNext ==
    \/ LoopTick
    \/ AcquireEnter
    \/ AcquireWake

SpecLimiter == Init /\ [][LimiterNext]_vars

\* The sink evaluates the filters its subscribers have set.
SinkNext ==
    \/ \E u \in Users : \E v \in MinSpreads : SetMinSpread(u, v)
    \/ \E u \in Users : \E v \in MinVolumes : SetMinVolume(u, v)
    \/ \E u \in Users : \E e \in ToggledExchanges : ToggleExchange(u, e)
    \/ \E u \in Users : \E sp \in EvalSpreads : \E v \in EvalVolumes :
          \E se \in EvalExchanges : \E fe \in EvalExchanges :
              SinkEvaluate(u, sp, v, se, fe)

SpecSink == Init /\ [][SinkNext]_vars

\* The fan-out of alerts to subscribers who set their filters.
FanOutNext ==
    \/ \E u \in Users : Subscribe(u)
    \/ \E u \in Users : \E v \in MinVolumes : SetMinVolume(u, v)
    \/ \E o \in OfferedOpps : \E delivery \in [Users -> DeliveryOutcomes] :
          FanOut(o, delivery)

SpecFanOut == Init /\ [][FanOutNext]_vars

\* The lists a scan hands to the scan loop in the model.
ScanLists == {<<>>} \cup {<<o>> : o \in OfferedOpps}

\* The scan loop over the lists handed to it.
HoldingNext ==
    \/ \E d \in EngineTicks : Tick(d)
    \/ Subscribe(1)
    \/ Start
    \/ Stop
    \/ \E opportunities \in ScanLists : ScanReturned(opportunities)
    \/ WakeUp

SpecHolding == Init /\ [][HoldingNext]_vars

\* start() and stop() calls on the engine, a start() running while a stop()
\* waits for the scan task it cancelled included.
StartStopNext ==
    \/ Initialize
    \/ Start
    \/ StopCancel
    \/ ScanTaskEnds
    \/ StopResume
    \/ MonitorIteration
    \/ WakeUp
    \/ \E e \in FeedExchanges : \E m \in MarketType : FeedConnected(e, m)

SpecStartStop == Init /\ [][StartStopNext]_vars

\* The engine from initialize() to stop(), with its scan loop.
LifecycleNext ==
    \/ Initialize
    \/ Start
    \/ Stop
    \/ \E u \in CacheFeed : UpdatePrice(u)
    \/ MonitorIteration
    \/ WakeUp

SpecLifecycle == Init /\ [][LifecycleNext]_vars

\* The event loop runs every task that is ready: the scan loop takes its
\* next iteration and its sleeps return.
FairSpec == Spec /\ WF_vars(MonitorIteration) /\ WF_vars(WakeUp)

(* ------------------------------- claims ------------------------------- *)

\* The expiry instant of the entry of key: the last update plus the TTL.
ExpiresAt(key) == written[key].at + DefaultTtl

\* C7: after update_price(u), a get_price of u's key issued within the TTL
\* and before a later update of the key returns u's price, whatever updates
\* of other keys and sweeps come in between.
C7_ReadAfterWrite ==
    (/\ ret.op = "get_price"
     /\ ret.key \in DOMAIN written
     /\ now < ExpiresAt(ret.key))
    => (ret.value # None /\ ret.value.price = written[ret.key].price)

\* A key is read within its TTL, some time after its update and after a
\* later update of another key.
C7_Witness ==
    /\ ret.op = "get_price"
    /\ ret.key \in DOMAIN written
    /\ written[ret.key].at < now
    /\ now < ExpiresAt(ret.key)
    /\ \E k \in DOMAIN written : written[k].at > written[ret.key].at
    /\ ret.value.price = written[ret.key].price

\* C8: get_price returns the entry only if now < expires_at and none
\* otherwise, the boundary now = expires_at included.
C8_AbsentWhenExpired ==
    ret.op = "get_price"
    => (ret.value # None
        <=> (ret.key \in DOMAIN written /\ now < ExpiresAt(ret.key)))

\* C9: the per-market snapshots never hold a PriceUpdate whose entry has
\* now >= expires_at.
C9_SnapshotsFresh ==
    /\ \A s \in DOMAIN GetAllSpotPrices(latest_prices) :
          \A e \in DOMAIN GetAllSpotPrices(latest_prices)[s] :
              now < ExpiresAt(KeyOf(e, "spot", s))
    /\ \A s \in DOMAIN GetAllFuturesPrices(latest_prices) :
          \A e \in DOMAIN GetAllFuturesPrices(latest_prices)[s] :
              now < ExpiresAt(KeyOf(e, "futures", s))

\* The (symbol, spot exchange, futures exchange) combinations the acceptance
\* test of the specification lets pass: spread = (fp - sp) / sp * 100 with
\* spread >= threshold, 0 < spread < 50 and fp > sp, both exchanges in the
\* filter when one is passed.
ExpectedPairs(lp, threshold, exchanges) ==
    {c \in Symbols \X ExchangeType \X ExchangeType :
        /\ KeyOf(c[2], "spot", c[1]) \in DOMAIN lp
        /\ KeyOf(c[3], "futures", c[1]) \in DOMAIN lp
        /\ (exchanges # None => c[2] \in exchanges.list /\ c[3] \in exchanges.list)
        /\ LET sp == lp[KeyOf(c[2], "spot", c[1])].price
               fp == lp[KeyOf(c[3], "futures", c[1])].price
           IN /\ sp > 0
              /\ fp > sp
              /\ (fp - sp) * 100 * SpreadUnit >= threshold * sp
              /\ (fp - sp) * 100 < 50 * sp}

\* The elements of a sequence.
Range(seq) == {seq[i] : i \in DOMAIN seq}

\* C2: find_opportunities returns normally, and its result holds exactly one
\* opportunity for every combination that passes the acceptance test and
\* none for any other.
C2_ReturnsComplete ==
    ret.op = "find_opportunities"
    => /\ ret.status = "returned"
       /\ {OppId(o) : o \in Range(ret.opps)}
             = ExpectedPairs(latest_prices, spread_threshold, ret.exchanges)
       /\ Len(ret.opps)
             = Cardinality(ExpectedPairs(latest_prices, spread_threshold, ret.exchanges))

\* The cache holds a spot and a futures price that pass the acceptance test,
\* the engine is running and nothing has been granted to that combination.
C3_Held ==
    /\ running
    /\ \E c \in ExpectedPairs(latest_prices, spread_threshold, None) :
          c \notin DOMAIN granted["engine"]

\* C3: while the engine runs and the cache keeps holding an opportunity that
\* is not in cooldown, a scan iteration eventually dispatches an alert.
C3_EventuallyDispatched == (<>[]C3_Held) => <>(dispatched # <<>>)

\* The times two histories hold are at least w apart.
Apart(h1, h2, same, w) ==
    \A i \in DOMAIN h1 : \A j \in DOMAIN h2 :
        (same /\ i = j) \/ h1[i] - h2[j] >= w \/ h2[j] - h1[i] >= w

MayEmit(before, key, t, w) == key \notin DOMAIN before \/ t - before[key] >= w

\* C5: the cooldown check returns true and sets the key's timestamp to now
\* iff the key has no recorded emission or now - last >= window; otherwise
\* it returns false and leaves the whole table unchanged.  For
\* check_alert_cooldown and for the limiter of send_alert.
C5_CheckEffect ==
    /\ ret.op = "check_alert_cooldown"
       => LET ok == MayEmit(ret.before, AlertKey(ret.opp), now, AlertCooldownSeconds)
          IN /\ ret.result = ok
             /\ last_alert_times =
                   IF ok THEN DictSet(ret.before, AlertKey(ret.opp), now)
                   ELSE ret.before
    /\ (ret.op = "send_alert" /\ ret.outcome # "no_subscribers")
       => LET ok == MayEmit(ret.before, ret.opp.base_asset, now, NotificationCooldown)
          IN /\ ret.result = ok
             /\ last_notification_time =
                   IF ok THEN DictSet(ret.before, ret.opp.base_asset, now)
                   ELSE ret.before

\* A check has just been refused inside the window of an earlier pass, and
\* the limiter of the sink has let an alert pass as well.
C5_Witness ==
    /\ ret.op = "check_alert_cooldown"
    /\ ~ret.result
    /\ AlertKey(ret.opp) \in DOMAIN ret.before
    /\ now > ret.before[AlertKey(ret.opp)]
    /\ last_notification_time # EmptyDict

\* C6: for a fixed key no two checks that return true are less than the
\* window apart, under any interleaving of the checks of several tasks.
C6_GrantsApart ==
    /\ \A k \in DOMAIN granted["engine"] :
          Len(granted["engine"][k]) = 2
          => granted["engine"][k][2] - granted["engine"][k][1]
                >= AlertCooldownSeconds
    /\ \A k \in DOMAIN granted["sink"] :
          Len(granted["sink"][k]) = 2
          => granted["sink"][k][2] - granted["sink"][k][1]
                >= NotificationCooldown

\* Both gates have let a key pass twice, the sink exactly one window apart.
C6_Witness ==
    /\ \E k \in DOMAIN granted["engine"] : Len(granted["engine"][k]) = 2
    /\ \E k \in DOMAIN granted["sink"] :
          /\ Len(granted["sink"][k]) = 2
          /\ granted["sink"][k][2] - granted["sink"][k][1] = NotificationCooldown

\* The place of an exchange and of a symbol in the lexicographic order of
\* their names.
NameRank(name) ==
    CASE name = "bingx" -> 1
      [] name = "gateio" -> 2
      [] name = "mexc" -> 3
      [] name = "BTCUSDT" -> 1
      [] name = "ETHUSDT" -> 2
      [] OTHER -> 0

\* Opportunity a comes before opportunity b in the order of the
\* specification: higher spread first, then lower symbol, lower spot
\* exchange, lower futures exchange.
Precedes(a, b) ==
    \/ a.spread_percent > b.spread_percent
    \/ /\ a.spread_percent = b.spread_percent
       /\ \/ NameRank(a.symbol) < NameRank(b.symbol)
          \/ /\ a.symbol = b.symbol
             /\ \/ NameRank(a.spot_exchange) < NameRank(b.spot_exchange)
                \/ /\ a.spot_exchange = b.spot_exchange
                   /\ NameRank(a.futures_exchange) < NameRank(b.futures_exchange)

\* Two combinations that pass the acceptance test have the same spread.
TiedPairs(lp, threshold, exchanges) ==
    \E c \in ExpectedPairs(lp, threshold, exchanges) :
        \E d \in ExpectedPairs(lp, threshold, exchanges) :
            /\ c # d
            /\ CalculateSpread(lp[KeyOf(c[2], "spot", c[1])].price,
                               lp[KeyOf(c[3], "futures", c[1])].price)
               = CalculateSpread(lp[KeyOf(d[2], "spot", d[1])].price,
                                 lp[KeyOf(d[3], "futures", d[1])].price)

\* C11: when several combinations pass with equal spreads, the call returns
\* them all, in the one order fixed by (symbol, spot exchange, futures
\* exchange) among equal spreads.
C11_TieOrder ==
    (/\ ret.op = "find_opportunities"
     /\ TiedPairs(latest_prices, spread_threshold, ret.exchanges))
    => /\ ret.status = "returned"
       /\ Len(ret.opps)
             = Cardinality(ExpectedPairs(latest_prices, spread_threshold, ret.exchanges))
       /\ \A i \in DOMAIN ret.opps : \A j \in DOMAIN ret.opps :
             i < j => Precedes(ret.opps[i], ret.opps[j])

\* C12: when an exchange filter F is passed, every returned opportunity has
\* its spot exchange and its futures exchange in F, and the empty F yields
\* the empty list.
C12_FilterRespected ==
    (ret.op = "find_opportunities" /\ ret.exchanges # None)
    => /\ \A i \in DOMAIN ret.opps :
             /\ ret.opps[i].spot_exchange \in ret.exchanges.list
             /\ ret.opps[i].futures_exchange \in ret.exchanges.list
       /\ ret.exchanges.list = {}
          => (ret.status = "returned" /\ ret.opps = <<>>)

\* The symbols that have an entry of the market type in the cache.
CachedSymbols(lp, market_type) == {k[3] : k \in {x \in DOMAIN lp : x[2] = market_type}}

\* C13: find_opportunities returns the empty list whenever no symbol has
\* both a spot and a futures price in the cache, and every returned
\* opportunity's symbol has both.
C13_DisjointEmpty ==
    ret.op = "find_opportunities"
    => /\ (CachedSymbols(latest_prices, "spot")
              \cap CachedSymbols(latest_prices, "futures") = {})
          => (ret.status = "returned" /\ ret.opps = <<>>)
       /\ \A i \in DOMAIN ret.opps :
             ret.opps[i].symbol \in CachedSymbols(latest_prices, "spot")
                                      \cap CachedSymbols(latest_prices, "futures")

\* A scan has returned the empty list over a cache that holds spot prices
\* and futures prices, of different symbols, that would pass the test
\* were they of one symbol.
C13_Witness ==
    /\ ret.op = "find_opportunities"
    /\ ret.status = "returned"
    /\ ret.opps = <<>>
    /\ CachedSymbols(latest_prices, "spot") \cap CachedSymbols(latest_prices, "futures") = {}
    /\ \E ks \in DOMAIN latest_prices : \E kf \in DOMAIN latest_prices :
          /\ ks[2] = "spot"
          /\ kf[2] = "futures"
          /\ CalculateSpread(latest_prices[ks].price, latest_prices[kf].price)
                >= spread_threshold
          /\ IsRealisticSpread(CalculateSpread(latest_prices[ks].price,
                                               latest_prices[kf].price))

\* The 24h volume a PriceUpdate carries, none when it carries no volume.
CarriedVolume(u) == IF HasAttr(u, "volume_24h") THEN u.volume_24h ELSE None

\* C14: when combinations pass the acceptance test, the call returns their
\* opportunities and the volume_24h of each is the volume carried by the
\* spot PriceUpdate it was built from, none when that update carries none.
C14_VolumeFromSpot ==
    (/\ ret.op = "find_opportunities"
     /\ ExpectedPairs(latest_prices, spread_threshold, ret.exchanges) # {})
    => /\ ret.status = "returned"
       /\ ret.opps # <<>>
       /\ \A i \in DOMAIN ret.opps :
             ret.opps[i].volume_24h
                = CarriedVolume(latest_prices[KeyOf(ret.opps[i].spot_exchange, "spot",
                                                    ret.opps[i].symbol)])

\* C15: the evaluator accepts an opportunity for a subscriber iff
\* min_spread <= spread <= max_spread, the volume is none or at least
\* min_volume, and both exchanges are enabled.
C15_AcceptIff ==
    ret.op = "should_send_alert"
    => LET f == user_filters[ret.user_id]
       IN ret.result
          <=> /\ f.min_spread <= ret.spread_percent
              /\ ret.spread_percent <= f.max_spread
              /\ (ret.volume = None \/ ret.volume.value >= f.min_volume)
              /\ ret.spot_exchange \in f.enabled_exchanges
              /\ ret.futures_exchange \in f.enabled_exchanges

\* A subscriber with enabled_exchanges = {mexc} has just rejected a
\* mexc-spot / gateio-futures opportunity whose spread and volume pass, and
\* another subscriber has no exchange enabled.
C15_Witness ==
    /\ ret.op = "should_send_alert"
    /\ ~ret.result
    /\ ret.spot_exchange = "mexc"
    /\ ret.futures_exchange = "gateio"
    /\ user_filters[ret.user_id].enabled_exchanges = {"mexc"}
    /\ IsSpreadValid(user_filters[ret.user_id], ret.spread_percent)
    /\ ret.volume = None
    /\ user_filters[ret.user_id].min_volume > 0
    /\ \E u \in DOMAIN user_filters : user_filters[u].enabled_exchanges = {}

\* C16: an evaluation leaves the filter store as it was, the set of users
\* with stored filters included, and evaluating the same inputs again gives
\* the same result.
C16_EvaluationPure ==
    ret.op = "should_send_alert"
    => /\ user_filters = ret.before
       /\ ShouldSendAlertResult(user_filters, ret.user_id, ret.spread_percent,
                                ret.volume, ret.spot_exchange,
                                ret.futures_exchange) = ret.result

\* C18: while the engine runs, an exception raised in a scan iteration is
\* caught and counted once (up to the bound of the counter), the task of
\* the scan loop stays alive and, after its sleep, is ready for a further
\* iteration; the task is gone only when the engine is not running.
C18_ErrorsCounted ==
    /\ [][(running /\ monitor = "ready" /\ monitor' \notin {"ready", "sleep1"})
           => /\ monitor' = "sleep5" \/ ~running'
              /\ running' => (errors < MaxErrors => errors' = errors + 1)]_vars
    /\ [](running => monitor \in {"ready", "sleep1", "sleep5"})
    /\ (running /\ monitor = "sleep5") ~> (monitor = "ready" \/ ~running)

\* Two scans in a row have raised and been counted, and the scan loop is
\* ready for its next iteration.
C18_Witness ==
    /\ running
    /\ monitor = "ready"
    /\ errors = 2
    /\ dispatched = <<>>

\* C19: after stop() the engine is not running, the scan task is gone,
\* close() has been called on every connector whatever the other close()
\* calls did, and the cache is closed.
C19_StopClosesAll ==
    ret.op = "stop"
    => /\ ~running
       /\ monitor \in {"none", "stopped"}
       /\ ret.closed = DOMAIN connectors
       /\ cache_closed

\* C20: the reconnects counter of a connector equals the number of its
\* feed connections that have ended, by an error, a timeout or a closure
\* by the remote end.
C20_ReconnectsCountDrops ==
    \A e \in DOMAIN connectors : connectors[e].reconnects = drops[e]

\* Three feed connections of the BingX connector have ended, the counter
\* stands at 3, the connector runs and its spot feed streams again.
C20_Witness ==
    /\ "bingx" \in DOMAIN connectors
    /\ drops["bingx"] = 3
    /\ connectors["bingx"].reconnects = 3
    /\ connectors["bingx"].running
    /\ connectors["bingx"].feeds["spot"] = "streaming"

\* The state of a feed loop of a connector, "none" before the connector
\* exists.
FeedState(e, m) ==
    IF e \in DOMAIN connectors THEN connectors[e].feeds[m] ELSE "none"

IsRunning(e) == e \in DOMAIN connectors /\ connectors[e].running

\* C21: a failing feed reconnects indefinitely: a feed loop that sleeps
\* after the end of a connection attempts to connect again, unless the
\* connector is closed meanwhile; no end of a connection makes the loop of
\* a running connector exit, or changes the engine's running flag or the
\* state of its scan loop.
C21_FeedReconnects ==
    /\ \A e \in FeedExchanges : \A m \in MarketType :
          (IsRunning(e) /\ FeedState(e, m) = "sleep5")
              ~> (FeedState(e, m) = "connecting" \/ ~IsRunning(e))
    /\ [][\A e \in FeedExchanges : \A m \in MarketType :
              (IsRunning(e) /\ FeedState(e, m) \in {"connecting", "streaming", "sleep5"})
              => (connectors'[e].feeds[m] # "done" \/ ~connectors'[e].running)]_vars
    /\ [][drops' # drops => (running' = running /\ monitor' = monitor)]_vars

\* Two connections of the MEXC spot feed have ended by an error, and the
\* feed of the running connector is connecting again.
C21_Witness ==
    /\ IsRunning("mexc")
    /\ connectors["mexc"].errors = 2
    /\ drops["mexc"] = 2
    /\ FeedState("mexc", "spot") = "connecting"
    /\ FeedState("mexc", "futures") = "streaming"
    /\ running
    /\ monitor = "ready"

\* C22: no parser emits an update whose price is zero, negative or missing,
\* so every price the feeds put into the cache is strictly positive.
C22_PricesPositive ==
    /\ (ret.op = "handle_message" /\ ret.emitted # None) => ret.emitted.price > 0
    /\ (ret.op = "handle_message" /\ FloatOrZero(ret.data.price) <= 0)
          => ret.emitted = None
    /\ \A k \in DOMAIN latest_prices : latest_prices[k].price > 0
    /\ \A k \in DOMAIN cache : cache[k].value.price > 0

\* The Gate.io spot feed has just carried a ticker priced 0, nothing was
\* emitted for it, and the cache holds the price of an earlier ticker.
C22_Witness ==
    /\ ret.op = "handle_message"
    /\ ret.exchange = "gateio"
    /\ ret.data.kind = "ticker"
    /\ ret.data.price = Some(0)
    /\ ret.emitted = None
    /\ KeyOf("gateio", "spot", "BTC_USDT") \in DOMAIN latest_prices
    /\ KeyOf("mexc", "spot", "BTCUSDT") \in DOMAIN cache

\* C23: a parser rejects every record whose symbol is not in the known
\* symbol set of its connector: an emitted update carries a symbol the
\* connector knows, as received or as stored.
C23_OnlyKnownSymbols ==
    (ret.op = "handle_message" /\ ret.emitted # None)
    => \/ ret.emitted.symbol \in KnownSymbols(ret.exchange, ret.market_type)
       \/ GetOrEmpty(ret.data.symbol) \in KnownSymbols(ret.exchange, ret.market_type)

\* Whether a symbol is in canonical form: upper case, without "_" or "-".
IsCanonical(symbol) == symbol \in {"BTCUSDT", "XYZUSDT"}

\* C24: every emitted update carries its symbol in canonical form, and the
\* removal of the separators leaves a canonical symbol as it is.
C24_SymbolsCanonical ==
    /\ (ret.op = "handle_message" /\ ret.emitted # None)
          => IsCanonical(ret.emitted.symbol)
    /\ \A k \in DOMAIN latest_prices : IsCanonical(latest_prices[k].symbol)
    /\ \A s \in {"BTCUSDT", "XYZUSDT"} :
          /\ ReplaceUnderscore(ReplaceUsdtUnderscore(s)) = s
          /\ ReplaceDash(s) = s

\* C25: a message that cannot be decoded or parsed yields no update and
\* adds one to the error counter of the connector, whose feed goes on
\* streaming.
C25_MalformedCounted ==
    (ret.op = "handle_message" /\ ret.data.kind \in {"malformed", "undecodable"})
    => /\ ret.emitted = None
       /\ connectors[ret.exchange].errors = ret.errors_before + 1
       /\ connectors[ret.exchange].feeds[ret.market_type] = "streaming"

\* C26: every REST call passes through the circuit breaker: after 5 failed
\* REST calls in a row the breaker is open, and no REST request is sent
\* until 30 s have elapsed since the last failure.
C26_BreakerGuardsRest ==
    /\ \A e \in ExchangeType :
          rest[e].streak >= FailureThreshold => rest[e].breaker.state # "closed"
    /\ (/\ ret.op = "rest_request"
        /\ ret.streak_before >= FailureThreshold
        /\ now - ret.last_failure_before.value < RecoveryTimeout)
          => ~ret.sent

C28_LastWriterWins ==
    (ret.op = "handle_message" /\ ret.delivered)
    => LET u == ret.emitted
           key == KeyOf(u.exchange, u.market_type, u.symbol)
       IN /\ key \in DOMAIN latest_prices /\ latest_prices[key] = u
          /\ key \in DOMAIN cache /\ cache[key].value = u
          /\ GetPriceValue(latest_prices, cache, key, now) = u
          /\ AllPrices(latest_prices, u.market_type)[u.symbol][u.exchange] = u
          /\ CacheGetValue(cache, key, now) = u

\* The MEXC spot feed has delivered a second update of BTCUSDT, at another
\* price than the one the cache held.
C28_Witness ==
    /\ ret.op = "handle_message"
    /\ ret.delivered
    /\ ret.previous # None
    /\ ret.previous.price = 102
    /\ ret.emitted.price = 100
    /\ latest_prices[KeyOf("mexc", "spot", "BTCUSDT")].price = 100

\* C29: cleanup is an idempotent sweep: it removes exactly the entries with
\* expires_at <= now and leaves every other entry as it is, and a second
\* sweep at the same instant changes nothing.
C29_CleanupSweep ==
    [][Cleanup =>
          /\ DOMAIN cache' = {k \in DOMAIN cache : cache[k].expires_at > now}
          /\ \A k \in DOMAIN cache' : cache'[k] = cache[k]
          /\ CleanupExpired(cache', now') = cache'
          /\ latest_prices' = latest_prices]_vars

\* The entry of MEXC spot BTCUSDT, written 300 s ago and expiring at this
\* very instant, has been swept, and the entry of Gate.io futures BTCUSDT,
\* written later, is still cached.
C29_Witness ==
    LET swept == KeyOf("mexc", "spot", "BTCUSDT")
        kept == KeyOf("gateio", "futures", "BTCUSDT")
    IN /\ swept \in DOMAIN written
       /\ written[swept].at + DefaultTtl = now
       /\ swept \notin DOMAIN cache
       /\ kept \in DOMAIN cache
       /\ cache[kept].expires_at > now

\* C30: the engine's price callback is registered on every connector it
\* starts, a connector whose initialize() failed included, and every update
\* a started connector emits reaches update_price.
C30_CallbackOnEveryStarted ==
    /\ \A e \in DOMAIN connectors :
          connectors[e].running => "_on_price_update" \in connectors[e].callbacks
    /\ (ret.op = "handle_message" /\ ret.emitted # None)
          => /\ ret.delivered
             /\ LET u == ret.emitted
                IN KeyOf(u.exchange, u.market_type, u.symbol) \in DOMAIN latest_prices

\* C31: after close() has been called on a connector both of its feed loops
\* have ended: as long as the connector is not started again no connection
\* is attempted, its reconnects counter stays as it is, and no update of
\* its feeds reaches the cache.
C31_ClosedFeedsEnd ==
    /\ [](\A e \in DOMAIN connectors :
             ~connectors[e].running
                => \A m \in MarketType : connectors[e].feeds[m] \in {"none", "done"})
    /\ [](ret.op = "stop"
             => \A e \in ret.closed :
                   /\ ~connectors[e].running
                   /\ \A m \in MarketType :
                         connectors[e].feeds[m] \in {"none", "done"})
    /\ [][\A e \in DOMAIN connectors :
             (~connectors[e].running /\ ~connectors'[e].running)
                => /\ connectors'[e].reconnects = connectors[e].reconnects
                   /\ connectors'[e].feeds = connectors[e].feeds
                   /\ \A k \in DOMAIN written' :
                         k[1] = e => (k \in DOMAIN written /\ written'[k] = written[k])
                   /\ (ret'.op = "handle_message" => ret'.exchange # e)]_vars

\* stop() has closed the MEXC connector after its spot feed had delivered a
\* price and reconnected once: both feeds are done.
C31_Witness ==
    /\ ret.op = "stop"
    /\ "mexc" \in ret.closed
    /\ ~connectors["mexc"].running
    /\ connectors["mexc"].reconnects = 1
    /\ connectors["mexc"].feeds["spot"] = "done"
    /\ connectors["mexc"].feeds["futures"] = "done"
    /\ KeyOf("mexc", "spot", "BTCUSDT") \in DOMAIN latest_prices

\* C32: the circuit breaker follows only these transitions: closed -> open
\* exactly when the count of failures in a row reaches the threshold, any
\* success resetting the count to 0; open -> half-open only once 30 s have
\* elapsed since the last failure, every earlier call being rejected without
\* the guarded function being invoked; half-open -> closed on the success of
\* the probe and half-open -> open on its failure.
C32_BreakerTransitions ==
    LET b0 == ret.before
        elapsed == LoopTime(now) - b0.last_failure_time.value
    IN /\ ret.op = "breaker_exit"
          => /\ ret.status = "returned" => breaker.failure_count = 0
             /\ b0.state = "closed"
                   => /\ breaker.state \in {"closed", "open"}
                      /\ breaker.state = "open"
                            <=> /\ ret.status = "raised"
                                /\ b0.failure_count + 1 >= FailureThreshold
             /\ b0.state = "open" => breaker.state = "open"
             /\ b0.state = "half-open"
                   => breaker.state = IF ret.status = "returned"
                                      THEN "closed" ELSE "open"
       /\ ret.op = "breaker_enter"
          => /\ b0.state # "open" => breaker.state = b0.state
             /\ b0.state = "open"
                   => /\ breaker.state \in {"open", "half-open"}
                      /\ breaker.state = "half-open" <=> elapsed >= RecoveryTimeout
                      /\ ret.invoked <=> elapsed >= RecoveryTimeout

\* C33: in the half-open state the circuit breaker admits exactly one
\* probe: of the calls that arrive after the recovery timeout, at most one
\* is inside the guarded function before the breaker has left the half-open
\* state.
C33_OneProbe ==
    Cardinality({c \in Callers : callers[c] = "half-open"}) <= 1

\* C34: the limiter bounds the rate of the calls: over any window of
\* length T at most capacity + rate * T acquire() calls complete, and the
\* count of tokens stays within [0, capacity].
C34_RateBounded ==
    /\ bucket.tokens >= 0
    /\ bucket.tokens <= LimiterCapacity
    /\ \A i \in 1..Len(acquired) : \A j \in i..Len(acquired) :
          10 * (j - i + 1)
             <= 10 * LimiterCapacity + LimiterRate * (acquired[j] - acquired[i])

\* C35: a transient failure of a REST call, a network exception as well as
\* a response other than 200 such as 429 or 5xx, is not raised to the
\* caller, who gets no result, and adds one to the errors counter of the
\* connector.
C35_RestFailuresCounted ==
    (ret.op = "rest_request" /\ ret.outcome \in {"http_error", "exception"})
    => /\ ret.status = "returned"
       /\ ret.value = None
       /\ connectors[ret.exchange].errors = ret.errors_before + 1

\* C36: a REST request that fails with a network error is retried: the
\* connector makes at least one further attempt of the request before the
\* caller sees the failure.
C36_RestRetried ==
    (ret.op = "rest_request" /\ ret.outcome = "exception")
    => rest[ret.exchange].attempts >= ret.attempts_before + 2

C40_OneScanLoop ==
    /\ ActiveScanLoops <= 1
    /\ (ret.op = "stop") => ActiveScanLoops = 0

====
